---- MODULE Spec2Model ----
(***************************************************************************)
(* plexer: HTTP event router with a durable failure queue.                 *)
(*                                                                         *)
(* Two state machines share this module:                                   *)
(*   Spec   the delivery subsystem (delivery.ts, index.ts): the queue      *)
(*          file failed_forwards.jsonl, the advisory lock, the retry tick, *)
(*          crash recovery and process crashes;                            *)
(*   SpecD  the ingress and the fanout dispatcher (server.ts) with         *)
(*          saveFailedEvent, the drain and the process exit.               *)
(* Every await of the source is one step, so that the operations           *)
(* interleave exactly where the event loop lets them interleave.           *)
(***************************************************************************)
EXTENDS Integers, Sequences, FiniteSets, TLC

\* ---------------------------------------------------------------- bounds
MaxSaves == 2      \* saveFailedEvent invocations in one run
MaxTicks == 2      \* retry ticks in one run
MaxCrashes == 1    \* process crashes in one run
MaxClock == 1      \* advances of the wall clock in one run
MaxFaults == 1     \* I/O errors injected in one run

\* ------------------------------------------------------ program constants
INITIAL_DELAY == 30          \* seconds, saveFailedEvent
BACKOFF_BASE == 60           \* seconds, retryFailedEvents
BACKOFF_CAP == 86400         \* seconds (24 h), retryFailedEvents
JitterChoices == {0, 9}      \* Math.random() * 10000 ms, whole seconds of [0, 10)
ClockStep == 45              \* seconds the wall clock moves in one advance
retryConcurrency == 2        \* config.retryConcurrency (RETRY_CONCURRENCY) of the modelled run
retryBatchSize == 2          \* config.retryBatchSize (RETRY_BATCH_SIZE) of the modelled run

\* the configuration config.ts exports for the modelled run
LoadedConfig == [retryConcurrency |-> retryConcurrency, retryBatchSize |-> retryBatchSize]

Null == -1                   \* null of nextDueAt / lastRetryAt
NoActor == <<"none", 0>>
TickActor == <<"tick", 0>>
InitActor == <<"init", 0>>
SaveActor(i) == <<"save", i>>

CRITICAL_KEY == "heimgeist"
BROADCAST_EVENTS == {"knowledge.observatory.published.v1", "integrity.summary.published.v1"}
BEST_EFFORT_EVENTS == {"integrity.summary.published.v1"}

\* the consumer registry, in fanout order
CONSUMERS == << [key |-> "heimgeist", label |-> "Heimgeist"],
                [key |-> "leitstand", label |-> "Leitstand"],
                [key |-> "hauski", label |-> "hausKI"],
                [key |-> "chronik", label |-> "Chronik"] >>

VARIABLES
  flExists,          \* failed_forwards.jsonl exists
  fl,                \* its lines (queue entries), in file order
  proc,              \* processing.<uuid>.jsonl files: tick number -> lines, or Absent
  lockHolder,        \* who holds the advisory lock on failed_forwards.lock
  failedCount, retryableNowCount, nextDueAt, lastError, lastRetryAt,
  sv,                \* saveFailedEvent invocations: position and entry
  tk,                \* the retry tick in progress
  ini,               \* initDelivery of the running process
  snapFile,          \* snapshot.<uuid>.jsonl of the metrics scan, or Absent
  ticksDone,         \* number of ticks started so far (names the processing file)
  now,               \* wall clock, seconds
  clockAdv, crashes, faults,
  lastOp,            \* the file operation on failed_forwards.jsonl done by the last step
  claimed,           \* tick number -> ids of the entries its rename took
  answered2xx,       \* ids of entries a retry POST delivered
  appended           \* ids of entries whose append in saveFailedEvent succeeded

qvars == <<flExists, fl, proc, lockHolder, failedCount, retryableNowCount, nextDueAt,
           lastError, lastRetryAt, sv, tk, ini, snapFile, ticksDone, now, clockAdv, crashes, faults,
           lastOp, claimed, answered2xx, appended>>

\* the ingress and the dispatcher (server.ts, index.ts)
VARIABLES
  peer,              \* a second process on the same data directory: its tick, its initDelivery, its counters
  config,            \* config.retryConcurrency and config.retryBatchSize of the run
  cfgUrl,            \* keys of the consumers whose URL is configured
  events,            \* the events handed to processEvent, in order
  responses,         \* the answers of POST /events, in order
  posts,             \* every fetch() issued by processEvent, in order
  pendingFetches,    \* the in-flight set: indices into posts
  saveCalls,         \* the saveFailedEvent invocations of the dispatcher, in order
  reports,           \* periodic delivery reports dispatched so far
  dr,                \* drainPendingRequests of the shutdown
  isShuttingDown,
  exited,            \* process.exit(0) has run
  retryTimer,        \* the timer of scheduleRetry: "armed" or "none"
  retryChain,        \* invocations of retryFailedEvents whose promise chain has not settled
  call               \* the last application of a function of config.ts or auth.ts: input and result

dvars == <<peer, config, cfgUrl, events, responses, posts, pendingFetches, saveCalls, reports, dr,
           isShuttingDown, exited, retryTimer, retryChain, call>>

vars == <<qvars, dvars>>

NoOp == [actor |-> NoActor, kind |-> "none"]

\* no function has been applied yet
NoCall == [fn |-> "none"]

Min(a, b) == IF a < b THEN a ELSE b
Max(a, b) == IF a > b THEN a ELSE b

RECURSIVE Pow2(_)
Pow2(n) == IF n = 0 THEN 1 ELSE 2 * Pow2(n - 1)

Ids(lines) == {lines[k].id : k \in 1..Len(lines)}

\* JavaScript values. A string is its text without the surrounding whitespace plus
\* the number of whitespace characters before and after it; any other value is
\* its canonical JSON text.
Str(lead, text, trail) == [t |-> "string", lead |-> lead, text |-> text, trail |-> trail]
Json(kind, text) == [t |-> kind, lead |-> 0, text |-> text, trail |-> 0]
Undefined == Json("undefined", "")
JsNull == Json("null", "null")

NoEvent == [type |-> Str(0, "", 0), source |-> Str(0, "", 0), payload |-> JsNull]
NoEntry == [id |-> 0, consumerKey |-> "", event |-> NoEvent, retryCount |-> 0,
            lastAttempt |-> 0, nextAttempt |-> 0, error |-> ""]

\* a file that does not exist (never the contents of a file)
Absent == <<[NoEntry EXCEPT !.id = -1]>>
Lines(f) == IF f = Absent THEN <<>> ELSE f

\* The event of a first-attempt failure in the delivery machine.
SampleEvent == [type |-> Str(0, "test.event", 0), source |-> Str(0, "test-suite", 0),
                payload |-> Json("object", "{foo:bar}")]

SaveIds == 1..MaxSaves
TickIds == 1..MaxTicks

\* nextDueAt after one more entry with nextAttempt n (delivery.ts, saveFailedEvent)
LowerNextDue(cur, n) == IF cur = Null \/ n < cur THEN n ELSE cur

\* min(2^retryCount * 60 s, 24 h)
Backoff(retryCount) == Min(Pow2(retryCount) * BACKOFF_BASE, BACKOFF_CAP)

\* the entry saveFailedEvent builds
NewFailedEvent(i, event, consumerKey, error, t, jitter) ==
  [id |-> i, consumerKey |-> consumerKey, event |-> event, retryCount |-> 0,
   lastAttempt |-> t, nextAttempt |-> t + INITIAL_DELAY + jitter, error |-> error]

\* the entry a failed retry writes back
BumpEntry(entry, attemptNow, t, jitter, error) ==
  [entry EXCEPT !.retryCount = entry.retryCount + 1,
                !.lastAttempt = t,
                !.nextAttempt = attemptNow + Backoff(entry.retryCount + 1) + jitter,
                !.error = error]

\* validateFailedEvent: the vendored failed_event.v1 schema
ValidateFailedEvent(entry) ==
  /\ entry.consumerKey # ""
  /\ entry.event.type.t = "string" /\ entry.event.type.text # ""
  /\ entry.event.source.t = "string" /\ entry.event.source.text # ""
  /\ entry.event.payload # Undefined
  /\ entry.retryCount >= 0

\* ------------------------------------------------------------ frames
metrics == <<failedCount, retryableNowCount, nextDueAt, lastError, lastRetryAt>>
files == <<flExists, fl, proc, snapFile>>
hist == <<claimed, answered2xx, appended>>
budget == <<now, clockAdv, crashes, faults, ticksDone>>

\* ===================================================== saveFailedEvent
\* In Spec the process serves requests and arms the retry timer once
\* initDelivery has returned: startup is explored on its own, without traffic.
Started == ini.pc = "done"

\* The call up to its first file operation: ensureDataDir, ensureLockFile, build
\* and validate the entry ("Don't save invalid events").
Called(i, event, consumerKey, error, jitter) ==
  LET entry == NewFailedEvent(i, event, consumerKey, error, now, jitter) IN
  IF ValidateFailedEvent(entry)
  THEN [pc |-> "access", entry |-> entry, res |-> "none"]
  ELSE [pc |-> "done", entry |-> entry, res |-> "invalid"]

SaveCall(i, event, consumerKey, error, jitter) ==
  /\ sv[i].pc = "idle"
  /\ \A j \in SaveIds : j < i => sv[j].pc # "idle"
  /\ sv' = [sv EXCEPT ![i] = Called(i, event, consumerKey, error, jitter)]
  /\ lastOp' = NoOp

\* try { await fs.access(failedLog) }
SaveAccess(i) ==
  /\ sv[i].pc = "access"
  /\ sv' = [sv EXCEPT ![i].pc = IF flExists THEN "lock" ELSE "create"]
  /\ lastOp' = NoOp
  /\ UNCHANGED <<files, lockHolder, metrics, tk, ini, budget, hist>>
  /\ UNCHANGED dvars

\* catch { await fs.writeFile(failedLog, '') }
SaveCreate(i) ==
  /\ sv[i].pc = "create"
  /\ flExists' = TRUE
  /\ fl' = <<>>
  /\ sv' = [sv EXCEPT ![i].pc = "lock"]
  /\ lastOp' = [actor |-> SaveActor(i), kind |-> "writeFile"]
  /\ UNCHANGED <<proc, snapFile, lockHolder, metrics, tk, ini, budget, hist>>
  /\ UNCHANGED dvars

\* release = await lock(lockFile, { retries: 3 }): acquired, or the retries
\* are used up while somebody else holds the lock and the catch drops the event
SaveLock(i) ==
  /\ sv[i].pc = "lock"
  /\ \/ /\ lockHolder = NoActor
        /\ lockHolder' = SaveActor(i)
        /\ sv' = [sv EXCEPT ![i].pc = "append"]
     \/ /\ lockHolder # NoActor
        /\ lockHolder' = lockHolder
        /\ sv' = [sv EXCEPT ![i].pc = "done", ![i].res = "dropped"]
  /\ lastOp' = NoOp
  /\ UNCHANGED <<files, metrics, tk, ini, budget, hist>>
  /\ UNCHANGED dvars

\* await fs.appendFile(failedLog, line); failedCount++; lastError; nextDueAt
SaveAppend(i) ==
  /\ sv[i].pc = "append"
  /\ \/ /\ fl' = Append(fl, sv[i].entry)
        /\ flExists' = TRUE
        /\ failedCount' = failedCount + 1
        /\ lastError' = sv[i].entry.error
        /\ nextDueAt' = LowerNextDue(nextDueAt, sv[i].entry.nextAttempt)
        /\ appended' = appended \cup {i}
        /\ sv' = [sv EXCEPT ![i].pc = "release", ![i].res = "appended"]
        /\ lastOp' = [actor |-> SaveActor(i), kind |-> "appendFile"]
        /\ UNCHANGED faults
     \/ /\ faults < MaxFaults
        /\ faults' = faults + 1
        /\ sv' = [sv EXCEPT ![i].pc = "release", ![i].res = "dropped"]
        /\ lastOp' = NoOp
        /\ UNCHANGED <<fl, flExists, failedCount, lastError, nextDueAt, appended>>
  /\ UNCHANGED <<proc, snapFile, lockHolder, retryableNowCount, lastRetryAt, tk, ini,
                 now, clockAdv, crashes, ticksDone, claimed, answered2xx>>
  /\ UNCHANGED dvars

\* a save that returns without releasing
SaveRelease_KeepsLock(i) ==
  /\ sv[i].pc = "release"
  /\ sv' = [sv EXCEPT ![i].pc = "done"]
  /\ lastOp' = NoOp
  /\ UNCHANGED <<files, lockHolder, metrics, tk, ini, budget, hist>>
  /\ UNCHANGED dvars

\* finally { if (release) await release() }
SaveRelease(i) ==
  /\ sv[i].pc = "release"
  /\ lockHolder' = NoActor
  /\ sv' = [sv EXCEPT ![i].pc = "done"]
  /\ lastOp' = NoOp
  /\ UNCHANGED <<files, metrics, tk, ini, budget, hist>>
  /\ UNCHANGED dvars

\* ==================================================== retryFailedEvents
IdleTick == [pc |-> "idle", id |-> 0, now |-> 0, lines |-> <<>>, pos |-> 0,
             remainingEvents |-> <<>>, chunkPromises |-> <<>>, failed |-> FALSE]

\* an attempt promise of the tick: limit(async () => ...)
Attempt(entry) == [entry |-> entry, st |-> "queued", attemptNow |-> 0, result |-> NoEntry]

RECURSIVE CountSt(_, _)
CountSt(chunk, st) ==
  IF chunk = <<>> THEN 0
  ELSE (IF chunk[1].st = st THEN 1 ELSE 0) + CountSt(Tail(chunk), st)

\* for (const res of results) if (res) remainingEvents.push(res)
RECURSIVE Results(_)
Results(chunk) ==
  IF chunk = <<>> THEN <<>>
  ELSE (IF chunk[1].result = NoEntry THEN <<>> ELSE <<chunk[1].result>>) \o Results(Tail(chunk))

RECURSIVE MinNext(_)
MinNext(lines) ==
  IF lines = <<>> THEN Null
  ELSE LowerNextDue(MinNext(Tail(lines)), lines[1].nextAttempt)

RECURSIVE CountDue(_, _)
CountDue(lines, t) ==
  IF lines = <<>> THEN 0
  ELSE (IF lines[1].nextAttempt <= t THEN 1 ELSE 0) + CountDue(Tail(lines), t)

\* the tick ends: .finally(() => { if (!isShuttingDown) scheduleRetry() })
EndTick == IdleTick

\* the timer fires: lastRetryAt, ensureDataDir, ensureLockFile
TickStart ==
  /\ Started
  /\ tk.pc = "idle"
  /\ ticksDone < MaxTicks
  /\ ticksDone' = ticksDone + 1
  /\ lastRetryAt' = now
  /\ tk' = [IdleTick EXCEPT !.pc = "access", !.id = ticksDone + 1]
  /\ lastOp' = NoOp
  /\ UNCHANGED <<files, lockHolder, failedCount, retryableNowCount, nextDueAt, lastError,
                 sv, ini, now, clockAdv, crashes, faults, hist>>
  /\ UNCHANGED dvars

\* try { await fs.access(failedLog) }
TickAccess ==
  /\ tk.pc = "access"
  /\ tk' = [tk EXCEPT !.pc = IF flExists THEN "lock" ELSE "create0"]
  /\ lastOp' = NoOp
  /\ UNCHANGED <<files, lockHolder, metrics, sv, ini, budget, hist>>
  /\ UNCHANGED dvars

\* catch { await fs.writeFile(failedLog, ''); return }
\* (a step of deployments where something outside this process removes the file:
\* within one process the file is there whenever a tick starts)
TickCreateMissing ==
  /\ tk.pc = "create0"
  /\ flExists' = TRUE
  /\ fl' = <<>>
  /\ tk' = EndTick
  /\ lastOp' = [actor |-> TickActor, kind |-> "writeFile"]
  /\ UNCHANGED <<proc, snapFile, lockHolder, metrics, sv, ini, budget, hist>>
  /\ UNCHANGED dvars

\* release = await lock(lockFile, { retries: 3 })
TickLock ==
  /\ tk.pc = "lock"
  /\ \/ /\ lockHolder = NoActor
        /\ lockHolder' = TickActor
        /\ tk' = [tk EXCEPT !.pc = "stat"]
     \/ /\ lockHolder # NoActor
        /\ lockHolder' = lockHolder
        /\ tk' = EndTick
  /\ lastOp' = NoOp
  /\ UNCHANGED <<files, metrics, sv, ini, budget, hist>>
  /\ UNCHANGED dvars

\* const stats = await fs.stat(failedLog).catch(() => null)
TickStat ==
  /\ tk.pc = "stat"
  /\ IF ~flExists \/ Len(fl) = 0
     THEN /\ failedCount' = 0
          /\ retryableNowCount' = 0
          /\ nextDueAt' = Null
          /\ tk' = [tk EXCEPT !.pc = "finally"]
     ELSE /\ tk' = [tk EXCEPT !.pc = "rename"]
          /\ UNCHANGED <<failedCount, retryableNowCount, nextDueAt>>
  /\ lastOp' = NoOp
  /\ UNCHANGED <<files, lockHolder, lastError, lastRetryAt, sv, ini, budget, hist>>
  /\ UNCHANGED dvars

\* await fs.rename(failedLog, processingFile); ENOENT goes to the catch
TickRename ==
  /\ tk.pc = "rename"
  /\ IF flExists
     THEN /\ proc' = [proc EXCEPT ![tk.id] = fl]
          /\ flExists' = FALSE
          /\ fl' = <<>>
          /\ claimed' = [claimed EXCEPT ![tk.id] = Ids(fl)]
          /\ tk' = [tk EXCEPT !.pc = "create"]
          /\ lastOp' = [actor |-> TickActor, kind |-> "rename"]
     ELSE /\ tk' = [tk EXCEPT !.pc = "finally"]
          /\ lastOp' = NoOp
          /\ UNCHANGED <<proc, flExists, fl, claimed>>
  /\ UNCHANGED <<snapFile, lockHolder, metrics, sv, ini, budget, answered2xx, appended>>
  /\ UNCHANGED dvars

\* await fs.writeFile(failedLog, '')
TickCreate ==
  /\ tk.pc = "create"
  /\ flExists' = TRUE
  /\ fl' = <<>>
  /\ tk' = [tk EXCEPT !.pc = "release"]
  /\ lastOp' = [actor |-> TickActor, kind |-> "writeFile"]
  /\ UNCHANGED <<proc, snapFile, lockHolder, metrics, sv, ini, budget, hist>>
  /\ UNCHANGED dvars

\* a tick that goes on to its attempts without releasing the lock
TickRelease_KeepsLock ==
  /\ tk.pc = "release"
  /\ lockHolder' = lockHolder
  /\ tk' = [tk EXCEPT !.pc = "open", !.now = now]
  /\ lastOp' = NoOp
  /\ UNCHANGED <<files, metrics, sv, ini, budget, hist>>
  /\ UNCHANGED dvars

\* await release(); release = null; remainingEvents = []; now = Date.now()
TickRelease ==
  /\ tk.pc = "release"
  /\ lockHolder' = NoActor
  /\ tk' = [tk EXCEPT !.pc = "open", !.now = now]
  /\ lastOp' = NoOp
  /\ UNCHANGED <<files, metrics, sv, ini, budget, hist>>
  /\ UNCHANGED dvars

\* readLinesSafe(processingFile): createReadStream; ENOENT goes to the catch
TickOpen ==
  /\ tk.pc = "open"
  /\ IF proc[tk.id] = Absent
     THEN tk' = EndTick
     ELSE tk' = [tk EXCEPT !.pc = "read", !.lines = proc[tk.id], !.pos = 1]
  /\ lastOp' = NoOp
  /\ UNCHANGED <<files, lockHolder, metrics, sv, ini, budget, hist>>
  /\ UNCHANGED dvars

\* a read loop that takes every entry for due
TickReadLine_AllDue ==
  /\ tk.pc = "read"
  /\ tk.pos <= Len(tk.lines)
  /\ LET entry == tk.lines[tk.pos]
         due == TRUE
         chunk == IF due THEN Append(tk.chunkPromises, Attempt(entry)) ELSE tk.chunkPromises
         rem == IF due THEN tk.remainingEvents ELSE Append(tk.remainingEvents, entry)
     IN tk' = [tk EXCEPT !.chunkPromises = chunk, !.remainingEvents = rem,
                         !.pos = tk.pos + 1,
                         !.pc = IF Len(chunk) >= config.retryBatchSize THEN "awaitChunk" ELSE "read"]
  /\ lastOp' = NoOp
  /\ UNCHANGED <<files, lockHolder, metrics, sv, ini, budget, hist>>
  /\ UNCHANGED dvars

\* one iteration of for await (const line of ...): a due entry becomes an
\* attempt promise, any other entry goes to remainingEvents; a full chunk is awaited
TickReadLine ==
  /\ tk.pc = "read"
  /\ tk.pos <= Len(tk.lines)
  /\ LET entry == tk.lines[tk.pos]
         due == entry.nextAttempt <= tk.now
         chunk == IF due THEN Append(tk.chunkPromises, Attempt(entry)) ELSE tk.chunkPromises
         rem == IF due THEN tk.remainingEvents ELSE Append(tk.remainingEvents, entry)
     IN tk' = [tk EXCEPT !.chunkPromises = chunk, !.remainingEvents = rem,
                         !.pos = tk.pos + 1,
                         !.pc = IF Len(chunk) >= config.retryBatchSize THEN "awaitChunk" ELSE "read"]
  /\ lastOp' = NoOp
  /\ UNCHANGED <<files, lockHolder, metrics, sv, ini, budget, hist>>
  /\ UNCHANGED dvars

\* a catch that removes the processing file it could not read
TickReadError_Unlinks ==
  /\ tk.pc = "read"
  /\ faults < MaxFaults
  /\ faults' = faults + 1
  /\ proc' = [proc EXCEPT ![tk.id] = Absent]
  /\ tk' = EndTick
  /\ lastOp' = NoOp
  /\ UNCHANGED <<flExists, fl, snapFile, lockHolder, metrics, sv, ini, now, clockAdv, crashes,
                 ticksDone, hist>>
  /\ UNCHANGED dvars

\* the stream fails while it is read: the catch of the tick
TickReadError ==
  /\ tk.pc = "read"
  /\ faults < MaxFaults
  /\ faults' = faults + 1
  /\ tk' = EndTick
  /\ lastOp' = NoOp
  /\ UNCHANGED <<files, lockHolder, metrics, sv, ini, now, clockAdv, crashes, ticksDone, hist>>
  /\ UNCHANGED dvars

\* the loop is over
TickReadEnd ==
  /\ tk.pc = "read"
  /\ tk.pos > Len(tk.lines)
  /\ tk' = [tk EXCEPT !.pc = IF Len(tk.chunkPromises) > 0 THEN "awaitLast"
                             ELSE IF Len(tk.remainingEvents) > 0 THEN "batchLock"
                             ELSE "unlink"]
  /\ lastOp' = NoOp
  /\ UNCHANGED <<files, lockHolder, metrics, sv, ini, budget, hist>>
  /\ UNCHANGED dvars

\* an attempt that starts whatever the number of running ones
AttemptStart_Unlimited(k) ==
  /\ tk.pc \in {"read", "awaitChunk", "awaitLast"}
  /\ k \in 1..Len(tk.chunkPromises)
  /\ tk.chunkPromises[k].st = "queued"
  /\ \A j \in 1..(k - 1) : tk.chunkPromises[j].st # "queued"
  /\ tk.chunkPromises[k].entry.consumerKey \in cfgUrl
  /\ tk' = [tk EXCEPT !.chunkPromises[k].st = "inflight", !.chunkPromises[k].attemptNow = now]
  /\ lastOp' = NoOp
  /\ UNCHANGED <<files, lockHolder, metrics, sv, ini, budget, hist>>
  /\ UNCHANGED dvars

\* p-limit starts the oldest queued attempt when fewer than retryConcurrency run:
\* attemptNow = Date.now(); the POST is issued
AttemptStart(k) ==
  /\ tk.pc \in {"read", "awaitChunk", "awaitLast"}
  /\ k \in 1..Len(tk.chunkPromises)
  /\ tk.chunkPromises[k].st = "queued"
  /\ \A j \in 1..(k - 1) : tk.chunkPromises[j].st # "queued"
  /\ CountSt(tk.chunkPromises, "inflight") < config.retryConcurrency
  /\ tk.chunkPromises[k].entry.consumerKey \in cfgUrl
  /\ tk' = [tk EXCEPT !.chunkPromises[k].st = "inflight", !.chunkPromises[k].attemptNow = now]
  /\ lastOp' = NoOp
  /\ UNCHANGED <<files, lockHolder, metrics, sv, ini, budget, hist>>
  /\ UNCHANGED dvars

\* the attempt finds no consumer of the entry's key, or one without URL: no POST,
\* the entry is bumped at once
AttemptUnconfigured(k, jitter) ==
  /\ tk.pc \in {"read", "awaitChunk", "awaitLast"}
  /\ k \in 1..Len(tk.chunkPromises)
  /\ tk.chunkPromises[k].st = "queued"
  /\ \A j \in 1..(k - 1) : tk.chunkPromises[j].st # "queued"
  /\ CountSt(tk.chunkPromises, "inflight") < config.retryConcurrency
  /\ tk.chunkPromises[k].entry.consumerKey \notin cfgUrl
  /\ LET entry == tk.chunkPromises[k].entry
         known == \E c \in 1..Len(CONSUMERS) : CONSUMERS[c].key = entry.consumerKey
         error == IF known THEN "Consumer URL missing" ELSE "Consumer configuration missing" IN
     tk' = [tk EXCEPT !.chunkPromises[k].st = "done", !.chunkPromises[k].attemptNow = now,
                      !.chunkPromises[k].result = BumpEntry(entry, now, now, jitter, error)]
  /\ lastOp' = NoOp
  /\ UNCHANGED <<files, lockHolder, metrics, sv, ini, budget, hist>>
  /\ UNCHANGED dvars

\* the POST settles: 2xx returns null, anything else bumps the entry
AttemptSettle(k, ok, jitter) ==
  /\ tk.pc \in {"read", "awaitChunk", "awaitLast"}
  /\ k \in 1..Len(tk.chunkPromises)
  /\ tk.chunkPromises[k].st = "inflight"
  /\ LET a == tk.chunkPromises[k] IN
     IF ok
     THEN /\ tk' = [tk EXCEPT !.chunkPromises[k].st = "done"]
          /\ answered2xx' = answered2xx \cup {a.entry.id}
          /\ UNCHANGED lastError
     ELSE /\ tk' = [tk EXCEPT !.chunkPromises[k].st = "done",
                              !.chunkPromises[k].result =
                                  BumpEntry(a.entry, a.attemptNow, now, jitter, "500")]
          /\ lastError' = "500"
          /\ UNCHANGED answered2xx
  /\ lastOp' = NoOp
  /\ UNCHANGED <<files, lockHolder, failedCount, retryableNowCount, nextDueAt, lastRetryAt,
                 sv, ini, budget, claimed, appended>>
  /\ UNCHANGED dvars

\* const results = await Promise.all(chunkPromises)
TickAwaitChunk ==
  /\ tk.pc \in {"awaitChunk", "awaitLast"}
  /\ \A k \in 1..Len(tk.chunkPromises) : tk.chunkPromises[k].st = "done"
  /\ LET rem == tk.remainingEvents \o Results(tk.chunkPromises) IN
     tk' = [tk EXCEPT !.remainingEvents = rem, !.chunkPromises = <<>>,
                      !.pc = IF tk.pc = "awaitChunk" THEN "read"
                             ELSE IF Len(rem) > 0 THEN "batchLock" ELSE "unlink"]
  /\ lastOp' = NoOp
  /\ UNCHANGED <<files, lockHolder, metrics, sv, ini, budget, hist>>
  /\ UNCHANGED dvars

\* batchAppendEvents: release = await lock(...); a failure is re-thrown to the tick
BatchLock ==
  /\ tk.pc = "batchLock"
  /\ \/ /\ lockHolder = NoActor
        /\ lockHolder' = TickActor
        /\ tk' = [tk EXCEPT !.pc = "batchWrite"]
     \/ /\ lockHolder # NoActor
        /\ lockHolder' = lockHolder
        /\ tk' = EndTick
  /\ lastOp' = NoOp
  /\ UNCHANGED <<files, metrics, sv, ini, budget, hist>>
  /\ UNCHANGED dvars

\* batchAppendEvents: await pipeline(Readable.from(...), createWriteStream(failedLog, 'a'))
BatchWrite ==
  /\ tk.pc = "batchWrite"
  /\ \/ /\ fl' = fl \o tk.remainingEvents
        /\ flExists' = TRUE
        /\ tk' = [tk EXCEPT !.pc = "batchRelease"]
        /\ lastOp' = [actor |-> TickActor, kind |-> "appendFile"]
        /\ UNCHANGED faults
     \/ /\ faults < MaxFaults
        /\ faults' = faults + 1
        /\ tk' = [tk EXCEPT !.pc = "batchRelease", !.failed = TRUE]
        /\ lastOp' = NoOp
        /\ UNCHANGED <<fl, flExists>>
  /\ UNCHANGED <<proc, snapFile, lockHolder, metrics, sv, ini, now, clockAdv, crashes,
                 ticksDone, hist>>
  /\ UNCHANGED dvars

\* batchAppendEvents: finally { if (release) await release() }
BatchRelease ==
  /\ tk.pc = "batchRelease"
  /\ lockHolder' = NoActor
  /\ tk' = IF tk.failed THEN EndTick ELSE [tk EXCEPT !.pc = "unlink"]
  /\ lastOp' = NoOp
  /\ UNCHANGED <<files, metrics, sv, ini, budget, hist>>
  /\ UNCHANGED dvars

\* await fs.unlink(processingFile), then the metrics are reset from remainingEvents
TickUnlink ==
  /\ tk.pc = "unlink"
  /\ IF proc[tk.id] = Absent
     THEN UNCHANGED <<proc, failedCount, retryableNowCount, nextDueAt>>
     ELSE /\ proc' = [proc EXCEPT ![tk.id] = Absent]
          /\ failedCount' = Len(tk.remainingEvents)
          /\ retryableNowCount' = CountDue(tk.remainingEvents, now)
          /\ nextDueAt' = MinNext(tk.remainingEvents)
  /\ tk' = EndTick
  /\ lastOp' = NoOp
  /\ UNCHANGED <<flExists, fl, snapFile, lockHolder, lastError, lastRetryAt, sv, ini,
                 budget, hist>>
  /\ UNCHANGED dvars

\* finally { if (release) await release() } on the early returns
TickFinally ==
  /\ tk.pc = "finally"
  /\ lockHolder' = NoActor
  /\ tk' = EndTick
  /\ lastOp' = NoOp
  /\ UNCHANGED <<files, metrics, sv, ini, budget, hist>>
  /\ UNCHANGED dvars

\* ========================================================= initDelivery
\* before: the data directory as this run found it (for the recovery law);
\* run, first: how often initDelivery has been called in a row, and the queue
\* file the first of these calls left behind
NoSnapshotOfDir == [flExists |-> FALSE, fl |-> <<>>, proc |-> <<>>, faults |-> 0]

StartInit == [pc |-> "start", files |-> <<>>, k |-> 0, scanSuccess |-> FALSE,
              snapshotPath |-> FALSE, now |-> 0, lineCount |-> 0, rNow |-> 0,
              minNext |-> Null, lockFailed |-> FALSE,
              before |-> NoSnapshotOfDir, run |-> 1, first |-> <<>>]

\* what a process keeps in its memory of the queue: the state of its tick, of
\* its initDelivery, and its counters
ProcessState(t, i, m) ==
  [tk |-> t, ini |-> i, failedCount |-> m[1], retryableNowCount |-> m[2], nextDueAt |-> m[3],
   lastError |-> m[4], lastRetryAt |-> m[5]]

\* no second process has done anything
NoPeer == ProcessState(IdleTick, [StartInit EXCEPT !.pc = "done"], <<0, 0, Null, "", Null>>)

\* a filter that matches no file
Listing_NoMatch(n) == <<>>

\* files.filter(f => f.startsWith('processing.') && f.endsWith('.jsonl'))
RECURSIVE Listing(_)
Listing(n) ==
  IF n = 0 THEN <<>>
  ELSE Listing(n - 1) \o (IF proc[n] = Absent THEN <<>> ELSE <<n>>)

\* where initDelivery goes after orphan k
AfterOrphan(k) == IF k < Len(ini.files) THEN [ini EXCEPT !.pc = "recover", !.k = k + 1]
                  ELSE [ini EXCEPT !.pc = "release"]

\* ensureDataDir, ensureLockFile, fs.readdir(dataDir)
InitReaddir ==
  /\ ini.pc = "start"
  /\ LET found == Listing(MaxTicks) IN
     ini' = [ini EXCEPT !.files = found, !.pc = IF Len(found) > 0 THEN "lock" ELSE "scanAccess",
                        !.before = [flExists |-> flExists, fl |-> fl, proc |-> proc,
                                    faults |-> faults]]
  /\ lastOp' = NoOp
  /\ UNCHANGED <<files, lockHolder, metrics, sv, tk, budget, hist>>
  /\ UNCHANGED dvars

\* release = await lock(lockFile, { retries: 3 }); a failure skips the recovery
InitLock ==
  /\ ini.pc = "lock"
  /\ \/ /\ lockHolder = NoActor
        /\ lockHolder' = InitActor
        /\ ini' = [ini EXCEPT !.pc = "ensure"]
     \/ /\ lockHolder # NoActor
        /\ lockHolder' = lockHolder
        /\ ini' = [ini EXCEPT !.pc = "scanAccess", !.lockFailed = TRUE]
  /\ lastOp' = NoOp
  /\ UNCHANGED <<files, metrics, sv, tk, budget, hist>>
  /\ UNCHANGED dvars

\* try { await fs.access(failedLog) } under the lock
InitEnsure ==
  /\ ini.pc = "ensure"
  /\ ini' = [ini EXCEPT !.pc = IF flExists THEN "recover" ELSE "ensureCreate", !.k = 1]
  /\ lastOp' = NoOp
  /\ UNCHANGED <<files, lockHolder, metrics, sv, tk, budget, hist>>
  /\ UNCHANGED dvars

\* catch { await fs.writeFile(failedLog, '') } under the lock
InitEnsureCreate ==
  /\ ini.pc = "ensureCreate"
  /\ flExists' = TRUE
  /\ fl' = <<>>
  /\ ini' = [ini EXCEPT !.pc = "recover"]
  /\ lastOp' = [actor |-> InitActor, kind |-> "writeFile"]
  /\ UNCHANGED <<proc, snapFile, lockHolder, metrics, sv, tk, budget, hist>>
  /\ UNCHANGED dvars

\* a recovery that unlinks the orphan whose copy failed
InitRecover_UnlinksFailed ==
  /\ ini.pc = "recover"
  /\ LET f == ini.files[ini.k] IN
     \/ /\ proc[f] # Absent
        /\ fl' = fl \o proc[f]
        /\ flExists' = TRUE
        /\ ini' = [ini EXCEPT !.pc = "unlinkOrphan"]
        /\ lastOp' = [actor |-> InitActor, kind |-> "appendFile"]
        /\ UNCHANGED faults
     \/ /\ proc[f] = Absent
        /\ ini' = AfterOrphan(ini.k)
        /\ lastOp' = NoOp
        /\ UNCHANGED <<fl, flExists, faults>>
     \/ /\ proc[f] # Absent
        /\ faults < MaxFaults
        /\ faults' = faults + 1
        /\ ini' = [ini EXCEPT !.pc = "unlinkOrphan"]
        /\ lastOp' = NoOp
        /\ UNCHANGED <<fl, flExists>>
  /\ UNCHANGED <<proc, snapFile, lockHolder, metrics, sv, tk, now, clockAdv, crashes,
                 ticksDone, hist>>
  /\ UNCHANGED dvars

\* await pipeline(createReadStream(filePath), createWriteStream(failedLog, 'a'));
\* an error is logged and the loop goes on with the next orphan
InitRecover ==
  /\ ini.pc = "recover"
  /\ LET f == ini.files[ini.k] IN
     \/ /\ proc[f] # Absent
        /\ fl' = fl \o proc[f]
        /\ flExists' = TRUE
        /\ ini' = [ini EXCEPT !.pc = "unlinkOrphan"]
        /\ lastOp' = [actor |-> InitActor, kind |-> "appendFile"]
        /\ UNCHANGED faults
     \/ /\ proc[f] = Absent
        /\ ini' = AfterOrphan(ini.k)
        /\ lastOp' = NoOp
        /\ UNCHANGED <<fl, flExists, faults>>
     \/ /\ proc[f] # Absent
        /\ faults < MaxFaults
        /\ faults' = faults + 1
        /\ ini' = AfterOrphan(ini.k)
        /\ lastOp' = NoOp
        /\ UNCHANGED <<fl, flExists>>
  /\ UNCHANGED <<proc, snapFile, lockHolder, metrics, sv, tk, now, clockAdv, crashes,
                 ticksDone, hist>>
  /\ UNCHANGED dvars

\* a recovery that leaves the orphan in place
InitUnlinkOrphan_Keeps ==
  /\ ini.pc = "unlinkOrphan"
  /\ ini' = AfterOrphan(ini.k)
  /\ lastOp' = NoOp
  /\ UNCHANGED <<files, lockHolder, metrics, sv, tk, budget, hist>>
  /\ UNCHANGED dvars

\* await fs.unlink(filePath)
InitUnlinkOrphan ==
  /\ ini.pc = "unlinkOrphan"
  /\ proc' = [proc EXCEPT ![ini.files[ini.k]] = Absent]
  /\ ini' = AfterOrphan(ini.k)
  /\ lastOp' = NoOp
  /\ UNCHANGED <<flExists, fl, snapFile, lockHolder, metrics, sv, tk, budget, hist>>
  /\ UNCHANGED dvars

\* finally { if (release) await release() }
InitRelease ==
  /\ ini.pc = "release"
  /\ lockHolder' = NoActor
  /\ ini' = [ini EXCEPT !.pc = "scanAccess"]
  /\ lastOp' = NoOp
  /\ UNCHANGED <<files, metrics, sv, tk, budget, hist>>
  /\ UNCHANGED dvars

\* metrics scan: try { await fs.access(failedLog) }
InitScanAccess ==
  /\ ini.pc = "scanAccess"
  /\ ini' = [ini EXCEPT !.pc = IF flExists THEN "scanLock" ELSE "scanCreate", !.now = now]
  /\ lastOp' = NoOp
  /\ UNCHANGED <<files, lockHolder, metrics, sv, tk, budget, hist>>
  /\ UNCHANGED dvars

\* metrics scan: catch { await fs.writeFile(failedLog, '') }; now = Date.now()
InitScanCreate ==
  /\ ini.pc = "scanCreate"
  /\ flExists' = TRUE
  /\ fl' = <<>>
  /\ ini' = [ini EXCEPT !.pc = "scanLock", !.now = now]
  /\ lastOp' = [actor |-> InitActor, kind |-> "writeFile"]
  /\ UNCHANGED <<proc, snapFile, lockHolder, metrics, sv, tk, budget, hist>>
  /\ UNCHANGED dvars

\* the counters initDelivery stores at its end
InitStoreMetrics(lineCount, rNow, minNext) ==
  /\ failedCount' = lineCount
  /\ retryableNowCount' = rNow
  /\ nextDueAt' = minNext

\* releaseScan = await lock(lockFile, { retries: 3 }); snapshotPath is set after it
InitScanLock ==
  /\ ini.pc = "scanLock"
  /\ \/ /\ lockHolder = NoActor
        /\ lockHolder' = InitActor
        /\ ini' = [ini EXCEPT !.pc = "copy", !.snapshotPath = TRUE]
        /\ UNCHANGED <<failedCount, retryableNowCount, nextDueAt>>
     \/ /\ lockHolder # NoActor
        /\ lockHolder' = lockHolder
        /\ ini' = [ini EXCEPT !.pc = "done"]
        /\ InitStoreMetrics(0, 0, Null)
  /\ lastOp' = NoOp
  /\ UNCHANGED <<files, lastError, lastRetryAt, sv, tk, budget, hist>>
  /\ UNCHANGED dvars

\* await fs.copyFile(failedLog, snapshotPath); scanSuccess = true
InitCopy ==
  /\ ini.pc = "copy"
  /\ \/ /\ flExists
        /\ snapFile' = fl
        /\ ini' = [ini EXCEPT !.pc = "scanRelease", !.scanSuccess = TRUE]
        /\ UNCHANGED faults
     \/ /\ ~flExists \/ faults < MaxFaults
        /\ faults' = IF flExists THEN faults + 1 ELSE faults
        /\ ini' = [ini EXCEPT !.pc = "scanRelease"]
        /\ UNCHANGED snapFile
  /\ lastOp' = NoOp
  /\ UNCHANGED <<flExists, fl, proc, lockHolder, metrics, sv, tk, now, clockAdv, crashes,
                 ticksDone, hist>>
  /\ UNCHANGED dvars

\* finally { if (releaseScan) await releaseScan() }
InitScanRelease ==
  /\ ini.pc = "scanRelease"
  /\ lockHolder' = NoActor
  /\ ini' = [ini EXCEPT !.pc = IF ini.scanSuccess THEN "scan" ELSE "unlinkSnap"]
  /\ lastOp' = NoOp
  /\ UNCHANGED <<files, metrics, sv, tk, budget, hist>>
  /\ UNCHANGED dvars

\* for await (const line of readLinesSafe(snapshotPath)): lineCount, minNext, rNow
\* the stream may fail after any number of lines: the catch logs and the lines
\* counted so far stay
InitScan ==
  /\ ini.pc = "scan"
  /\ \/ /\ ini' = IF snapFile = Absent THEN [ini EXCEPT !.pc = "unlinkSnap"]
                  ELSE [ini EXCEPT !.pc = "unlinkSnap", !.lineCount = Len(snapFile),
                                   !.rNow = CountDue(snapFile, ini.now),
                                   !.minNext = MinNext(snapFile)]
        /\ UNCHANGED faults
     \/ /\ snapFile # Absent
        /\ faults < MaxFaults
        /\ faults' = faults + 1
        /\ \E n \in 0..(Len(snapFile) - 1) :
             LET read == SubSeq(snapFile, 1, n) IN
             ini' = [ini EXCEPT !.pc = "unlinkSnap", !.lineCount = n,
                                !.rNow = CountDue(read, ini.now),
                                !.minNext = MinNext(read)]
  /\ lastOp' = NoOp
  /\ UNCHANGED <<files, lockHolder, metrics, sv, tk, now, clockAdv, crashes, ticksDone, hist>>
  /\ UNCHANGED dvars

\* an end of the scan that leaves the snapshot in the directory
InitUnlinkSnapshot_Keeps ==
  /\ ini.pc = "unlinkSnap"
  /\ InitStoreMetrics(ini.lineCount, ini.rNow, ini.minNext)
  /\ ini' = [ini EXCEPT !.pc = "done"]
  /\ lastOp' = NoOp
  /\ UNCHANGED <<files, lockHolder, lastError, lastRetryAt, sv, tk, budget, hist>>
  /\ UNCHANGED dvars

\* finally { try { await fs.unlink(snapshotPath) } catch {} }; the counters are stored
InitUnlinkSnapshot ==
  /\ ini.pc = "unlinkSnap"
  /\ snapFile' = Absent
  /\ InitStoreMetrics(ini.lineCount, ini.rNow, ini.minNext)
  /\ ini' = [ini EXCEPT !.pc = "done"]
  /\ lastOp' = NoOp
  /\ UNCHANGED <<flExists, fl, proc, lockHolder, lastError, lastRetryAt, sv, tk, budget, hist>>
  /\ UNCHANGED dvars

\* ============================================== environment of the process
\* a first attempt of the dispatcher failed for the critical consumer
ProcessEventFailure(i) ==
  /\ \E jitter \in JitterChoices : SaveCall(i, SampleEvent, CRITICAL_KEY, "503", jitter)
  /\ UNCHANGED <<files, lockHolder, metrics, tk, ini, budget, hist>>
  /\ UNCHANGED dvars

\* the same failure in a process whose initDelivery has returned
DispatcherFailure(i) ==
  /\ Started
  /\ ProcessEventFailure(i)

\* the process dies and is started again: memory is lost, the files stay, the
\* lock of the dead process goes stale and is free for the next lock()
CrashedSave(s) == IF s.pc \in {"idle", "done"} THEN s ELSE [s EXCEPT !.pc = "done", !.res = "crashed"]

Crash ==
  /\ crashes < MaxCrashes
  /\ crashes' = crashes + 1
  /\ sv' = [i \in SaveIds |-> CrashedSave(sv[i])]
  /\ tk' = IdleTick
  /\ ini' = StartInit
  /\ lockHolder' = NoActor
  /\ failedCount' = 0
  /\ retryableNowCount' = 0
  /\ nextDueAt' = Null
  /\ lastError' = ""
  /\ lastRetryAt' = Null
  /\ lastOp' = NoOp
  /\ UNCHANGED <<files, now, clockAdv, faults, ticksDone, hist>>
  /\ UNCHANGED dvars

\* time passes, in whole seconds, while the process waits for the retry timer
\* or for the answer to a retry POST; disk operations take no time at this scale
AdvanceClock ==
  /\ clockAdv < MaxClock
  /\ Started
  /\ tk.pc = "idle" \/ CountSt(tk.chunkPromises, "inflight") > 0
  /\ clockAdv' = clockAdv + 1
  /\ now' = now + ClockStep
  /\ lastOp' = NoOp
  /\ UNCHANGED <<files, lockHolder, metrics, sv, tk, ini, crashes, faults, ticksDone, hist>>
  /\ UNCHANGED dvars

\* ================================================================ Spec
Init ==
  /\ flExists = FALSE
  /\ fl = <<>>
  /\ proc = [t \in TickIds |-> Absent]
  /\ snapFile = Absent
  /\ lockHolder = NoActor
  /\ failedCount = 0
  /\ retryableNowCount = 0
  /\ nextDueAt = Null
  /\ lastError = ""
  /\ lastRetryAt = Null
  /\ sv = [i \in SaveIds |-> [pc |-> "idle", entry |-> NoEntry, res |-> "none"]]
  /\ tk = IdleTick
  /\ ini = StartInit
  /\ ticksDone = 0
  /\ now = 0
  /\ clockAdv = 0
  /\ crashes = 0
  /\ faults = 0
  /\ lastOp = NoOp
  /\ claimed = [t \in TickIds |-> {}]
  /\ answered2xx = {}
  /\ appended = {}
  /\ cfgUrl = {"heimgeist", "leitstand", "chronik"}
  /\ events = <<>>
  /\ responses = <<>>
  /\ posts = <<>>
  /\ pendingFetches = {}
  /\ saveCalls = <<>>
  /\ reports = 0
  /\ dr = [pc |-> "idle", snapshot |-> {}, result |-> "none", dispatched |-> FALSE]
  /\ isShuttingDown = FALSE
  /\ exited = FALSE
  /\ retryTimer = "armed"
  /\ retryChain = 0
  /\ call = NoCall
  /\ config = LoadedConfig
  /\ peer = NoPeer

SaveStep(i) == SaveAccess(i) \/ SaveCreate(i) \/ SaveLock(i) \/ SaveAppend(i) \/ SaveRelease(i)

TickStep ==
  \/ TickStart \/ TickAccess \/ TickLock \/ TickStat \/ TickRename
  \/ TickCreate \/ TickRelease \/ TickOpen \/ TickReadLine \/ TickReadError \/ TickReadEnd
  \/ TickAwaitChunk \/ BatchLock \/ BatchWrite \/ BatchRelease \/ TickUnlink \/ TickFinally
  \/ \E k \in 1..MaxSaves : AttemptStart(k)
  \/ \E k \in 1..MaxSaves, ok \in BOOLEAN, jitter \in JitterChoices : AttemptSettle(k, ok, jitter)

InitStep ==
  \/ InitReaddir \/ InitLock \/ InitEnsure \/ InitEnsureCreate \/ InitRecover
  \/ InitUnlinkOrphan \/ InitRelease \/ InitScanAccess \/ InitScanCreate \/ InitScanLock
  \/ InitCopy \/ InitScanRelease \/ InitScan \/ InitUnlinkSnapshot

Next ==
  \/ \E i \in SaveIds : DispatcherFailure(i)
  \/ \E i \in SaveIds : SaveStep(i)
  \/ TickStep
  \/ InitStep
  \/ Crash
  \/ AdvanceClock

Spec == Init /\ [][Next]_vars

\* ================================================= ingress and dispatcher
MaxReqs == 1       \* POST /events requests in one run
MaxReports == 1    \* periodic delivery reports in one run

MAX_STRING_LENGTH == 256
EVENT_PLEXER_DELIVERY_REPORT_V1 == "plexer.delivery.report.v1"

RECURSIVE Repeat(_, _)
Repeat(s, n) == IF n = 0 THEN "" ELSE s \o Repeat(s, n - 1)

\* a type of MAX_STRING_LENGTH + 1 characters
LongText == Repeat("a", MAX_STRING_LENGTH + 1)

\* String.prototype.trim
trim(s) == Str(0, s.text, 0)

\* String.prototype.toLowerCase, on the texts of the modelled requests
LowerCaseOf(text) ==
  CASE text = "Test.Event" -> "test.event"
    [] text = "INTEGRITY.SUMMARY.PUBLISHED.V1" -> "integrity.summary.published.v1"
    [] text = "Knowledge.Observatory.Published.v1" -> "knowledge.observatory.published.v1"
    [] OTHER -> text

toLowerCase(s) == [s EXCEPT !.text = LowerCaseOf(s.text)]

\* String.prototype.length
length(s) == s.lead + Len(s.text) + s.trail

\* Set.prototype.has on a set of strings: the whole string has to match
Has(set, s) == s.lead = 0 /\ s.trail = 0 /\ s.text \in set

\* the sets of consumers with a URL in the modelled deployments
ConfigChoices == { {"heimgeist", "leitstand", "chronik"},
                   {"leitstand", "hauski"} }

\* request bodies as express.json() hands them over (strict mode: object or array)
Body(kind, type, source, payload) ==
  [kind |-> kind, type |-> type, source |-> source, payload |-> payload]

SamplePayload == Json("object", "{foo:bar}")

Bodies ==
  { Body("object", Str(2, "Test.Event", 1), Str(1, "test-suite", 1), SamplePayload),
    Body("object", Str(0, "Knowledge.Observatory.Published.v1", 0), Str(0, "semantAH", 2),
         Json("object", "{url:u}")),
    Body("object", Str(0, "INTEGRITY.SUMMARY.PUBLISHED.V1", 0), Str(0, "ci", 0), JsNull),
    Body("object", Str(3, "", 0), Str(0, "test-suite", 0), SamplePayload),
    Body("object", Str(0, "test.event", 0), Str(0, "test-suite", 0), Undefined),
    Body("object", Json("number", "7"), Str(0, "test-suite", 0), SamplePayload),
    Body("array", Undefined, Undefined, Undefined),
    Body("undefined", Undefined, Undefined, Undefined),
    Body("object", Str(0, LongText, 0), Str(0, "test-suite", 0), SamplePayload) }

\* validateEventEnvelope: the vendored event.envelope.v1 schema
ValidateEventEnvelope(event) ==
  /\ event.type.t = "string" /\ length(event.type) > 0
  /\ event.source.t = "string" /\ length(event.source) > 0
  /\ event.payload # Undefined

\* const normalizedType = type.trim().toLowerCase(); normalizedSource = source.trim()
NormalizedEvent(body) ==
  [type |-> toLowerCase(trim(body.type)), source |-> trim(body.source), payload |-> body.payload]

\* an answer that reports the outcome of the fanout
Accepted_Delivered == [status |-> 200, body |-> "delivered"]

\* the answers of POST /events
Accepted == [status |-> 202, body |-> "accepted"]
Rejected(message) == [status |-> 400, body |-> message]

\* the checks of the handler, in their order; "ok" when the event is processed
HandlerVerdict(body) ==
  IF body.kind \notin {"object", "array"} THEN "Invalid event structure"
  ELSE IF body.type.t # "string" \/ body.source.t # "string" THEN "Type and source must be strings"
  ELSE IF ~ValidateEventEnvelope(NormalizedEvent(body)) THEN "Invalid event envelope"
  ELSE IF length(NormalizedEvent(body).type) > MAX_STRING_LENGTH
          \/ length(NormalizedEvent(body).source) > MAX_STRING_LENGTH THEN "Event must include non-empty type & source (max 256 chars) and payload"
  ELSE "ok"

\* JSON.stringify of a value, JSON.parse of its result
Stringify(v) == IF v.t = "string" THEN [v EXCEPT !.t = "json-string"] ELSE v
Parse(j) == IF j.t = "json-string" THEN [j EXCEPT !.t = "string"] ELSE j

\* const effectivePayload = payload === undefined ? null : payload
EffectivePayload(payload) == IF payload = Undefined THEN JsNull ELSE payload

\* a body that carries an id of its own
SerializedEvent_WithEventId(event) ==
  << [key |-> "type", json |-> Stringify(event.type)],
     [key |-> "source", json |-> Stringify(event.source)],
     [key |-> "payload", json |-> Stringify(EffectivePayload(event.payload))],
     [key |-> "eventId", json |-> Stringify(Str(0, "uuid", 0))] >>

\* `{"type":${JSON.stringify(type)},"source":${JSON.stringify(source)},"payload":${payloadJson}}`
SerializedEvent(event) ==
  << [key |-> "type", json |-> Stringify(event.type)],
     [key |-> "source", json |-> Stringify(event.source)],
     [key |-> "payload", json |-> Stringify(EffectivePayload(event.payload))] >>

\* a policy that forwards every event to every consumer
shouldForward_Everywhere(eventType, consumerKey) == TRUE

shouldForward(eventType, consumerKey) ==
  IF Has(BROADCAST_EVENTS, eventType) THEN TRUE ELSE consumerKey = CRITICAL_KEY

\* CONSUMERS.forEach: the fetches processEvent issues for event number e
RECURSIVE Fanout(_, _, _)
Fanout(consumers, event, e) ==
  IF consumers = <<>> THEN <<>>
  ELSE (IF Head(consumers).key \in cfgUrl /\ shouldForward(event.type, Head(consumers).key)
        THEN << [event |-> e, key |-> Head(consumers).key, body |-> SerializedEvent(event),
                 status |-> "pending"] >>
        ELSE <<>>) \o Fanout(Tail(consumers), event, e)

\* pendingFetches.add(fetchPromise) for each of the n fetches just issued
\* a dispatcher that forgets pendingFetches.add(fetchPromise)
Added_Nothing(set, n) == set

Added(set, n) == set \cup (Len(posts) + 1 .. Len(posts) + n)

\* getPendingRequestCount: pendingFetches.size
getPendingRequestCount == Cardinality(pendingFetches)

\* getDeliveryMetrics, the payload of GET /status
getDeliveryMetrics(pendingCount) ==
  [counts |-> [pending |-> pendingCount, failed |-> failedCount],
   last_error |-> lastError, last_retry_at |-> lastRetryAt,
   retryable_now |-> retryableNowCount, next_due_at |-> nextDueAt]

\* a settled call that stays in the in-flight set
Finally_Keeps(set, p) == set

\* .finally(() => { pendingFetches.delete(fetchPromise) })
Finally(set, p) == set \ {p}

\* a policy that queues every failure of the critical consumer
QueueOnFail_EveryType(eventType, consumerKey) == consumerKey = CRITICAL_KEY

\* a policy that queues for every consumer
QueueOnFail_EveryConsumer(eventType, consumerKey) == ~Has(BEST_EFFORT_EVENTS, eventType)

\* the reliability policy of the .then and .catch handlers
QueueOnFail(eventType, consumerKey) ==
  ~(Has(BEST_EFFORT_EVENTS, eventType) \/ consumerKey # CRITICAL_KEY)

\* how a first attempt can end, and the error text handed to saveFailedEvent
Outcomes == {"200", "500", "throw"}
ErrorOf(outcome) == IF outcome = "throw" THEN "ECONNREFUSED" ELSE outcome

\* the number of fetches of event e that are in the in-flight set
InFlightOf(set, allPosts, e) == Cardinality({p \in set : allPosts[p].event = e})

IdleDrain == [pc |-> "idle", snapshot |-> {}, result |-> "none", dispatched |-> FALSE]

\* processEvent(event): the synchronous fanout; every fetch joins pendingFetches
ProcessEvent(event) ==
  LET e == Len(events) + 1
      issued == Fanout(CONSUMERS, event, e) IN
  /\ events' = Append(events, event)
  /\ posts' = posts \o issued
  /\ pendingFetches' = Added(pendingFetches, Len(issued))
  /\ dr' = IF dr.pc = "waiting" THEN [dr EXCEPT !.dispatched = TRUE] ELSE dr

\* a handler that dispatches before it validates the envelope
Ingress_DispatchesFirst(body) ==
  /\ ~exited /\ ~isShuttingDown
  /\ Len(responses) < MaxReqs
  /\ IF HandlerVerdict(body) = "ok"
     THEN /\ Len(events) < MaxSaves
          /\ ProcessEvent(NormalizedEvent(body))
          /\ responses' = Append(responses,
               [answer |-> Accepted, input |-> body, event |-> Len(events) + 1,
                issued |-> Len(posts') - Len(posts),
                unsettled |-> InFlightOf(pendingFetches', posts', Len(events) + 1)])
     ELSE /\ responses' = Append(responses,
               [answer |-> Rejected(HandlerVerdict(body)), input |-> body, event |-> 0,
                issued |-> 0, unsettled |-> 0])
          /\ IF body.type.t = "string" /\ body.source.t = "string" /\ Len(events) < MaxSaves
             THEN ProcessEvent(NormalizedEvent(body))
             ELSE UNCHANGED <<events, posts, pendingFetches, dr>>
  /\ lastOp' = NoOp
  /\ UNCHANGED <<files, lockHolder, metrics, sv, tk, ini, budget, hist>>
  /\ UNCHANGED <<peer, config, cfgUrl, saveCalls, reports, isShuttingDown, exited, retryTimer, retryChain, call>>

\* POST /events: the whole handler runs without an await
Ingress(body) ==
  /\ ~exited /\ ~isShuttingDown
  /\ Len(responses) < MaxReqs
  /\ IF HandlerVerdict(body) = "ok"
     THEN /\ Len(events) < MaxSaves
          /\ ProcessEvent(NormalizedEvent(body))
          /\ responses' = Append(responses,
               [answer |-> Accepted, input |-> body, event |-> Len(events) + 1,
                issued |-> Len(posts') - Len(posts),
                unsettled |-> InFlightOf(pendingFetches', posts', Len(events) + 1)])
     ELSE /\ responses' = Append(responses,
               [answer |-> Rejected(HandlerVerdict(body)), input |-> body, event |-> 0,
                issued |-> 0, unsettled |-> 0])
          /\ UNCHANGED <<events, posts, pendingFetches, dr>>
  /\ lastOp' = NoOp
  /\ UNCHANGED <<files, lockHolder, metrics, sv, tk, ini, budget, hist>>
  /\ UNCHANGED <<peer, config, cfgUrl, saveCalls, reports, isShuttingDown, exited, retryTimer, retryChain, call>>

\* setInterval(..., REPORT_INTERVAL_MS): the delivery report is dispatched as an event
PeriodicReport ==
  /\ ~exited
  /\ reports < MaxReports
  /\ Len(events) < MaxSaves
  /\ reports' = reports + 1
  /\ ProcessEvent([type |-> Str(0, EVENT_PLEXER_DELIVERY_REPORT_V1, 0),
                   source |-> Str(0, "plexer", 0),
                   payload |-> Json("object", "{counts,last_error,...}")])
  /\ lastOp' = NoOp
  /\ UNCHANGED <<files, lockHolder, metrics, sv, tk, ini, budget, hist>>
  /\ UNCHANGED <<peer, config, cfgUrl, responses, saveCalls, isShuttingDown, exited, retryTimer, retryChain, call>>

\* process.exit(0): every operation in progress dies with the process
Exited(saves) == [i \in SaveIds |-> CrashedSave(saves[i])]

\* Promise.all(Array.from(pendingFetches)) of a waiting drain is fulfilled
AllFinished(allPosts) ==
  dr.pc = "waiting" /\ \A q \in dr.snapshot : allPosts[q].status # "pending"

\* A first attempt settles: .then / .catch apply the policy and call
\* saveFailedEvent without awaiting it, .finally leaves the in-flight set. When
\* this fulfils the Promise.all of a waiting drain, the drain returns and
\* shutdown calls process.exit(0) before any file operation can complete.
Settle(p, outcome, jitter) ==
  LET post == posts[p]
      event == events[post.event]
      queue == outcome # "200" /\ QueueOnFail(event.type, post.key)
      i == Len(saveCalls) + 1
      settled == [posts EXCEPT ![p].status = outcome]
      called == IF queue
                THEN [sv EXCEPT ![i] = Called(i, event, post.key, ErrorOf(outcome), jitter)]
                ELSE sv
      drained == AllFinished(settled) IN
  /\ ~exited
  /\ p \in 1..Len(posts) /\ post.status = "pending"
  /\ queue => i \in SaveIds
  /\ ~queue => jitter = 0
  /\ posts' = settled
  /\ pendingFetches' = Finally(pendingFetches, p)
  /\ saveCalls' = IF queue THEN Append(saveCalls, [post |-> p, save |-> i]) ELSE saveCalls
  /\ dr' = IF drained THEN [dr EXCEPT !.pc = "returned", !.result = "done"] ELSE dr
  /\ exited' = drained
  /\ sv' = IF drained THEN Exited(called) ELSE called
  /\ lockHolder' = IF drained THEN NoActor ELSE lockHolder
  /\ lastOp' = NoOp
  /\ UNCHANGED <<files, metrics, tk, ini, budget, hist>>
  /\ UNCHANGED <<peer, config, cfgUrl, events, responses, reports, isShuttingDown, retryTimer, retryChain, call>>

\* SIGTERM / SIGINT: isShuttingDown = true; clearTimeout(retryTimer); server.close(...)
Shutdown ==
  /\ ~exited /\ ~isShuttingDown
  /\ isShuttingDown' = TRUE
  /\ lastOp' = NoOp
  /\ UNCHANGED qvars
  /\ retryTimer' = "none"
  /\ UNCHANGED <<peer, config, cfgUrl, events, responses, posts, pendingFetches, saveCalls, reports, dr,
                 exited, retryChain, call>>

\* the callback of server.close: drainPendingRequests() starts. With an empty
\* in-flight set it returns at once and shutdown exits; otherwise it waits for
\* Promise.race([allFinished, timeoutPromise]).
DrainStart ==
  /\ ~exited /\ isShuttingDown
  /\ dr.pc = "idle"
  /\ IF Cardinality(pendingFetches) = 0
     THEN /\ dr' = [dr EXCEPT !.pc = "returned", !.result = "empty"]
          /\ exited' = TRUE
          /\ sv' = Exited(sv)
          /\ lockHolder' = NoActor
     ELSE /\ dr' = [dr EXCEPT !.pc = "waiting", !.snapshot = pendingFetches]
          /\ UNCHANGED <<exited, sv, lockHolder>>
  /\ lastOp' = NoOp
  /\ UNCHANGED <<files, metrics, tk, ini, budget, hist>>
  /\ UNCHANGED <<peer, config, cfgUrl, events, responses, posts, pendingFetches, saveCalls, reports,
                 isShuttingDown, retryTimer, retryChain, call>>

\* setTimeout(() => resolve('timeout'), timeoutMs) wins the race; shutdown exits
DrainTimeout ==
  /\ ~exited
  /\ dr.pc = "waiting"
  /\ dr' = [dr EXCEPT !.pc = "returned", !.result = "timeout"]
  /\ exited' = TRUE
  /\ sv' = Exited(sv)
  /\ lockHolder' = NoActor
  /\ lastOp' = NoOp
  /\ UNCHANGED <<files, metrics, tk, ini, budget, hist>>
  /\ UNCHANGED <<peer, config, cfgUrl, events, responses, posts, pendingFetches, saveCalls, reports,
                 isShuttingDown, retryTimer, retryChain, call>>

\* The process after initDelivery has returned on an empty data directory, with
\* one of the modelled deployments.
InitD ==
  /\ flExists = TRUE
  /\ fl = <<>>
  /\ proc = [t \in TickIds |-> Absent]
  /\ snapFile = Absent
  /\ lockHolder = NoActor
  /\ failedCount = 0
  /\ retryableNowCount = 0
  /\ nextDueAt = Null
  /\ lastError = ""
  /\ lastRetryAt = Null
  /\ sv = [i \in SaveIds |-> [pc |-> "idle", entry |-> NoEntry, res |-> "none"]]
  /\ tk = IdleTick
  /\ ini = [StartInit EXCEPT !.pc = "done", !.snapshotPath = TRUE, !.scanSuccess = TRUE,
                            !.before = [NoSnapshotOfDir EXCEPT !.proc = [t \in TickIds |-> Absent]]]
  /\ ticksDone = 0
  /\ now = 0
  /\ clockAdv = 0
  /\ crashes = 0
  /\ faults = 0
  /\ lastOp = NoOp
  /\ claimed = [t \in TickIds |-> {}]
  /\ answered2xx = {}
  /\ appended = {}
  /\ cfgUrl \in ConfigChoices
  /\ events = <<>>
  /\ responses = <<>>
  /\ posts = <<>>
  /\ pendingFetches = {}
  /\ saveCalls = <<>>
  /\ reports = 0
  /\ dr = IdleDrain
  /\ isShuttingDown = FALSE
  /\ exited = FALSE
  /\ retryTimer = "armed"
  /\ retryChain = 0
  /\ call = NoCall
  /\ config = LoadedConfig
  /\ peer = NoPeer

NextD ==
  \/ \E body \in Bodies : Ingress(body)
  \/ PeriodicReport
  \/ \E p \in 1..(4 * MaxSaves), outcome \in Outcomes, jitter \in JitterChoices :
       Settle(p, outcome, jitter)
  \/ \E i \in SaveIds : SaveAccess(i) \/ SaveLock(i) \/ SaveAppend(i) \/ SaveRelease(i)
  \/ Shutdown
  \/ DrainStart
  \/ DrainTimeout

SpecD == InitD /\ [][NextD]_vars

\* ======================================================== crash recovery
\* initDelivery on an arbitrary data directory: a start after a crash finds
\* whatever queue file and processing files the dead process left behind.
MaxLines == 2      \* lines of a file the process finds at its start
MaxRuns == 2       \* calls of initDelivery in a row

\* lines a dead process can have left: a fresh entry, and one that has been
\* retried once and is due later
LeftEntries == { NewFailedEvent(1, SampleEvent, CRITICAL_KEY, "503", 0, 0),
                 BumpEntry(NewFailedEvent(2, SampleEvent, CRITICAL_KEY, "503", 0, 9),
                           0, 0, 0, "500") }

FileChoices == UNION { [1..n -> LeftEntries] : n \in 0..MaxLines }

\* initDelivery is called again after it has returned
RunAgain ==
  /\ ini.pc = "done"
  /\ ini.run < MaxRuns
  /\ ini' = [StartInit EXCEPT !.run = ini.run + 1,
                              !.first = IF ini.run = 1 THEN fl ELSE ini.first]
  /\ lastOp' = NoOp
  /\ UNCHANGED <<files, lockHolder, metrics, sv, tk, budget, hist>>
  /\ UNCHANGED dvars

InitR ==
  /\ flExists \in BOOLEAN
  /\ fl \in (IF flExists THEN FileChoices ELSE {<<>>})
  /\ proc \in [TickIds -> FileChoices \cup {Absent}]
  /\ snapFile = Absent
  /\ lockHolder = NoActor
  /\ failedCount = 0
  /\ retryableNowCount = 0
  /\ nextDueAt = Null
  /\ lastError = ""
  /\ lastRetryAt = Null
  /\ sv = [i \in SaveIds |-> [pc |-> "idle", entry |-> NoEntry, res |-> "none"]]
  /\ tk = IdleTick
  /\ ini = StartInit
  /\ ticksDone = 0
  /\ now = 0
  /\ clockAdv = 0
  /\ crashes = 0
  /\ faults = 0
  /\ lastOp = NoOp
  /\ claimed = [t \in TickIds |-> {}]
  /\ answered2xx = {}
  /\ appended = {}
  /\ cfgUrl = {"heimgeist", "leitstand", "chronik"}
  /\ events = <<>>
  /\ responses = <<>>
  /\ posts = <<>>
  /\ pendingFetches = {}
  /\ saveCalls = <<>>
  /\ reports = 0
  /\ dr = IdleDrain
  /\ isShuttingDown = FALSE
  /\ exited = FALSE
  /\ retryTimer = "armed"
  /\ retryChain = 0
  /\ call = NoCall
  /\ config = LoadedConfig
  /\ peer = NoPeer

NextR == InitStep \/ RunAgain

SpecR == InitR /\ [][NextR]_vars

\* ---------------------------------------------------------------------------
\* The start of the process.  index.ts calls initDelivery() and attaches a
\* .catch, without await (part_001:12-14); the same synchronous run then arms
\* the retry timer and calls app.listen (part_001:64-71).  Requests are served
\* while initDelivery is at any of its awaits; one failing fanout is followed.
\* ---------------------------------------------------------------------------

NextU ==
  \/ InitStep
  \/ ProcessEventFailure(1)
  \/ SaveStep(1)

SpecU == InitR /\ [][NextU]_vars

\* ---------------------------------------------------------------------------
\* The retry scheduler of index.ts.  scheduleRetry arms one timer; its callback
\* calls retryFailedEvents and re-arms the timer in the .finally of the promise.
\* ---------------------------------------------------------------------------

\* the timer re-armed by the callback itself, before the invocation has settled
TimerFires_Rearms ==
  /\ retryTimer = "armed"
  /\ ~exited
  /\ ticksDone < MaxTicks
  /\ retryTimer' = "armed"
  /\ retryChain' = retryChain + 1
  /\ IF tk.pc = "idle"
     THEN /\ ticksDone' = ticksDone + 1
          /\ lastRetryAt' = now
          /\ tk' = [IdleTick EXCEPT !.pc = "access", !.id = ticksDone + 1]
     ELSE UNCHANGED <<ticksDone, lastRetryAt, tk>>
  /\ lastOp' = NoOp
  /\ UNCHANGED <<files, lockHolder, failedCount, retryableNowCount, nextDueAt, lastError,
                 sv, ini, now, clockAdv, crashes, faults, hist>>
  /\ UNCHANGED <<peer, config, cfgUrl, events, responses, posts, pendingFetches, saveCalls, reports, dr,
                 isShuttingDown, exited, call>>

\* setTimeout(() => { retryFailedEvents()... }, delay) fires: the timer is spent
\* and retryFailedEvents runs up to its first await.  The callback does not look
\* whether an invocation is running; one that would overlap is counted in
\* retryChain and not followed further.
TimerFires ==
  /\ retryTimer = "armed"
  /\ ~exited
  /\ ticksDone < MaxTicks
  /\ retryTimer' = "none"
  /\ retryChain' = retryChain + 1
  /\ IF tk.pc = "idle"
     THEN /\ ticksDone' = ticksDone + 1
          /\ lastRetryAt' = now
          /\ tk' = [IdleTick EXCEPT !.pc = "access", !.id = ticksDone + 1]
     ELSE UNCHANGED <<ticksDone, lastRetryAt, tk>>
  /\ lastOp' = NoOp
  /\ UNCHANGED <<files, lockHolder, failedCount, retryableNowCount, nextDueAt, lastError,
                 sv, ini, now, clockAdv, crashes, faults, hist>>
  /\ UNCHANGED <<peer, config, cfgUrl, events, responses, posts, pendingFetches, saveCalls, reports, dr,
                 isShuttingDown, exited, call>>

\* a .finally that schedules the next tick whatever isShuttingDown says
RetrySettled_Rearms ==
  /\ retryChain > 0
  /\ tk.pc = "idle"
  /\ ~exited
  /\ retryChain' = retryChain - 1
  /\ retryTimer' = "armed"
  /\ lastOp' = NoOp
  /\ UNCHANGED <<files, lockHolder, metrics, sv, tk, ini, budget, hist>>
  /\ UNCHANGED <<peer, config, cfgUrl, events, responses, posts, pendingFetches, saveCalls, reports, dr,
                 isShuttingDown, exited, call>>

\* the promise of retryFailedEvents has settled: .catch logs, .finally calls
\* scheduleRetry unless the process is shutting down
RetrySettled ==
  /\ retryChain > 0
  /\ tk.pc = "idle"
  /\ ~exited
  /\ retryChain' = retryChain - 1
  /\ retryTimer' = IF isShuttingDown THEN retryTimer ELSE "armed"
  /\ lastOp' = NoOp
  /\ UNCHANGED <<files, lockHolder, metrics, sv, tk, ini, budget, hist>>
  /\ UNCHANGED <<peer, config, cfgUrl, events, responses, posts, pendingFetches, saveCalls, reports, dr,
                 isShuttingDown, exited, call>>

\* the steps of a running tick
TickBody ==
  \/ TickAccess \/ TickLock \/ TickStat \/ TickRename
  \/ TickCreate \/ TickRelease \/ TickOpen \/ TickReadLine \/ TickReadError \/ TickReadEnd
  \/ TickAwaitChunk \/ BatchLock \/ BatchWrite \/ BatchRelease \/ TickUnlink \/ TickFinally
  \/ \E k \in 1..MaxSaves : AttemptStart(k)
  \/ \E k \in 1..MaxSaves, ok \in BOOLEAN, jitter \in JitterChoices : AttemptSettle(k, ok, jitter)

NextS ==
  \/ TimerFires \/ RetrySettled \/ TickBody
  \/ \E k \in 1..MaxSaves, jitter \in JitterChoices : AttemptUnconfigured(k, jitter)
  \/ AdvanceClock \/ Shutdown


\* ---------------------------------------------------------------------------
\* Retry timing: a process started on a queue left by an earlier run, whose
\* consumers answer slowly.  fetch is called without a timeout
\* (part_011:350-354), so the time an attempt takes is not bounded by the code.
\* ---------------------------------------------------------------------------

\* seconds a consumer may take to answer one POST
MaxAnswerTime == 300

\* the entries the queue holds at the start: those of LeftEntries, one for a
\* consumer that is not the critical one, and one for a key CONSUMERS does not
\* list any more
QueuedEntries ==
  LeftEntries \cup { NewFailedEvent(3, SampleEvent, "leitstand", "503", 0, 0),
                     NewFailedEvent(4, SampleEvent, "retired", "503", 0, 0) }

QueueChoices == UNION { [1..n -> QueuedEntries] : n \in 0..MaxLines }

\* the wall clock moves while a POST of the retry worker is awaited
SlowAnswer ==
  /\ clockAdv < MaxClock
  /\ CountSt(tk.chunkPromises, "inflight") > 0
  /\ clockAdv' = clockAdv + 1
  /\ now' = now + MaxAnswerTime
  /\ lastOp' = NoOp
  /\ UNCHANGED <<files, lockHolder, metrics, sv, tk, ini, crashes, faults, ticksDone, hist>>
  /\ UNCHANGED dvars

\* initDelivery has returned on a directory that held a queue file written by an
\* earlier run and no processing file: the counters are those of its scan, and
\* the process starts late enough for every left entry to be due.  HEIMGEIST_URL
\* is set or not.
InitT ==
  /\ flExists = TRUE
  /\ fl \in QueueChoices
  /\ proc = [t \in TickIds |-> Absent]
  /\ snapFile = Absent
  /\ now = 3 * ClockStep
  /\ lockHolder = NoActor
  /\ failedCount = Len(fl)
  /\ retryableNowCount = CountDue(fl, now)
  /\ nextDueAt = MinNext(fl)
  /\ lastError = ""
  /\ lastRetryAt = Null
  /\ sv = [i \in SaveIds |-> [pc |-> "idle", entry |-> NoEntry, res |-> "none"]]
  /\ tk = IdleTick
  /\ ini = [StartInit EXCEPT !.pc = "done"]
  /\ ticksDone = 0
  /\ clockAdv = 0
  /\ crashes = 0
  /\ faults = 0
  /\ lastOp = NoOp
  /\ claimed = [t \in TickIds |-> {}]
  /\ answered2xx = {}
  /\ appended = {}
  /\ cfgUrl \in {{"heimgeist", "leitstand", "chronik"}, {"leitstand", "chronik"}}
  /\ events = <<>>
  /\ responses = <<>>
  /\ posts = <<>>
  /\ pendingFetches = {}
  /\ saveCalls = <<>>
  /\ reports = 0
  /\ dr = IdleDrain
  /\ isShuttingDown = FALSE
  /\ exited = FALSE
  /\ retryTimer = "armed"
  /\ retryChain = 0
  /\ call = NoCall
  /\ config = LoadedConfig
  /\ peer = NoPeer

NextT ==
  \/ TickStep
  \/ \E k \in 1..MaxSaves, jitter \in JitterChoices : AttemptUnconfigured(k, jitter)
  \/ AdvanceClock
  \/ SlowAnswer

SpecT == InitT /\ [][NextT]_vars

\* ---------------------------------------------------------------------------
\* Chunks and bounded concurrency: a queue longer than one chunk, and fewer
\* concurrent attempts than a chunk holds.
\* ---------------------------------------------------------------------------

MaxQueued == 3           \* lines of the queue the tick drains
NarrowConcurrency == 1   \* RETRY_CONCURRENCY of this run

LongQueueChoices == UNION { [1..n -> QueuedEntries] : n \in 0..MaxQueued }

\* as InitT, with the longer queue and RETRY_CONCURRENCY below RETRY_BATCH_SIZE
InitB ==
  /\ flExists = TRUE
  /\ fl \in LongQueueChoices
  /\ proc = [t \in TickIds |-> Absent]
  /\ snapFile = Absent
  /\ now = 3 * ClockStep
  /\ lockHolder = NoActor
  /\ failedCount = Len(fl)
  /\ retryableNowCount = CountDue(fl, now)
  /\ nextDueAt = MinNext(fl)
  /\ lastError = ""
  /\ lastRetryAt = Null
  /\ sv = [i \in SaveIds |-> [pc |-> "idle", entry |-> NoEntry, res |-> "none"]]
  /\ tk = IdleTick
  /\ ini = [StartInit EXCEPT !.pc = "done"]
  /\ ticksDone = 0
  /\ clockAdv = 0
  /\ crashes = 0
  /\ faults = 0
  /\ lastOp = NoOp
  /\ claimed = [t \in TickIds |-> {}]
  /\ answered2xx = {}
  /\ appended = {}
  /\ cfgUrl \in {{"heimgeist", "leitstand", "chronik"}, {"leitstand", "chronik"}}
  /\ events = <<>>
  /\ responses = <<>>
  /\ posts = <<>>
  /\ pendingFetches = {}
  /\ saveCalls = <<>>
  /\ reports = 0
  /\ dr = IdleDrain
  /\ isShuttingDown = FALSE
  /\ exited = FALSE
  /\ retryTimer = "armed"
  /\ retryChain = 0
  /\ call = NoCall
  /\ config = [retryConcurrency |-> NarrowConcurrency, retryBatchSize |-> retryBatchSize]
  /\ peer = NoPeer

SpecB == InitB /\ [][NextT]_vars

\* the same process with its retry scheduler and the shutdown signal
SpecS == InitT /\ [][NextS]_vars

\* the steps of a running tick that the process takes by itself: file
\* operations, lock calls and the start of a POST.  The settling of a POST is
\* not among them: fetch is called with method, headers and body only
\* (part_011:350-354), so its promise settles when the consumer answers or
\* the connection fails, and at no time the code sets.
TickOwn ==
  \/ TickAccess \/ TickLock \/ TickStat \/ TickRename
  \/ TickCreate \/ TickRelease \/ TickOpen \/ TickReadLine \/ TickReadError \/ TickReadEnd
  \/ TickAwaitChunk \/ BatchLock \/ BatchWrite \/ BatchRelease \/ TickUnlink \/ TickFinally
  \/ \E k \in 1..MaxSaves : AttemptStart(k)
  \/ \E k \in 1..MaxSaves, jitter \in JitterChoices : AttemptUnconfigured(k, jitter)

\* the scheduled process under the event loop's guarantees: an armed timer
\* fires, a runnable continuation runs, a settled promise has its handlers
\* called.  Nothing obliges the consumer to answer.
SpecL ==
  /\ InitT /\ [][NextS]_vars
  /\ WF_vars(TimerFires) /\ WF_vars(TickOwn) /\ WF_vars(RetrySettled)

\* initDelivery is called on the data directory while the retry worker runs on
\* it: by a second process started on the same directory, or by the process
\* itself, which does not await initDelivery before it arms the retry timer
\* The queue file exists whenever initDelivery holds the lock here (a tick that
\* has renamed it keeps the lock until it has created the new one), so
\* InitEnsureCreate is not among the steps.
NextC ==
  \/ TickStep
  \/ InitReaddir \/ InitLock \/ InitEnsure \/ InitRecover \/ InitUnlinkOrphan \/ InitRelease
  \/ InitScanAccess \/ InitScanCreate \/ InitScanLock \/ InitCopy \/ InitScanRelease
  \/ InitScan \/ InitUnlinkSnapshot
  \/ RunAgain

SpecC == InitT /\ [][NextC]_vars

\* ---------------------------------------------------------------------------
\* From the request to the queue and on to the retry worker: the dispatcher
\* of a process that started on an empty data directory hands its failures to
\* saveFailedEvent, and the ticks of the same process work on what was saved.
\* ---------------------------------------------------------------------------

NextQ ==
  \/ \E body \in Bodies : Ingress(body)
  \/ \E p \in 1..(4 * MaxSaves), outcome \in Outcomes, jitter \in JitterChoices :
       Settle(p, outcome, jitter)
  \/ \E i \in SaveIds : SaveAccess(i) \/ SaveLock(i) \/ SaveAppend(i) \/ SaveRelease(i)
  \/ TickStep
  \/ AdvanceClock

SpecQ == InitD /\ [][NextQ]_vars

\* ---------------------------------------------------------------------------
\* Two processes on one data directory (blue/green deploys, sidecar restarts).
\* Both run the code above; they share the files and the lock and nothing
\* else.  The variables tk, ini and the counters are those of the process
\* that is running; peer holds those of the other one.
\* ---------------------------------------------------------------------------

\* the lock holder as the other process sees it
PeerOf(a) ==
  CASE a = TickActor -> <<"tick", 1>>
    [] a = <<"tick", 1>> -> TickActor
    [] a = InitActor -> <<"init", 1>>
    [] a = <<"init", 1>> -> InitActor
    [] OTHER -> a

\* the operating system runs the other process
SwitchProcess ==
  /\ peer' = ProcessState(tk, ini, metrics)
  /\ tk' = peer.tk
  /\ ini' = peer.ini
  /\ failedCount' = peer.failedCount
  /\ retryableNowCount' = peer.retryableNowCount
  /\ nextDueAt' = peer.nextDueAt
  /\ lastError' = peer.lastError
  /\ lastRetryAt' = peer.lastRetryAt
  /\ lockHolder' = PeerOf(lockHolder)
  /\ lastOp' = NoOp
  /\ UNCHANGED <<files, sv, budget, hist>>
  /\ UNCHANGED <<config, cfgUrl, events, responses, posts, pendingFetches, saveCalls, reports, dr,
                 isShuttingDown, exited, retryTimer, retryChain, call>>

\* one process has run initDelivery on the directory; the other one has done so
\* too and has seen the same queue, or is starting.  The queue holds one entry
\* at most.
InitM ==
  /\ flExists = TRUE
  /\ fl \in {q \in QueueChoices : Len(q) <= 1}
  /\ proc = [t \in TickIds |-> Absent]
  /\ snapFile = Absent
  /\ now = 3 * ClockStep
  /\ lockHolder = NoActor
  /\ failedCount = Len(fl)
  /\ retryableNowCount = CountDue(fl, now)
  /\ nextDueAt = MinNext(fl)
  /\ lastError = ""
  /\ lastRetryAt = Null
  /\ sv = [i \in SaveIds |-> [pc |-> "idle", entry |-> NoEntry, res |-> "none"]]
  /\ tk = IdleTick
  /\ ini = [StartInit EXCEPT !.pc = "done"]
  /\ ticksDone = 0
  /\ clockAdv = 0
  /\ crashes = 0
  /\ faults = 0
  /\ lastOp = NoOp
  /\ claimed = [t \in TickIds |-> {}]
  /\ answered2xx = {}
  /\ appended = {}
  /\ cfgUrl \in {{"heimgeist", "leitstand", "chronik"}, {"leitstand", "chronik"}}
  /\ events = <<>>
  /\ responses = <<>>
  /\ posts = <<>>
  /\ pendingFetches = {}
  /\ saveCalls = <<>>
  /\ reports = 0
  /\ dr = IdleDrain
  /\ isShuttingDown = FALSE
  /\ exited = FALSE
  /\ retryTimer = "armed"
  /\ retryChain = 0
  /\ call = NoCall
  /\ config = LoadedConfig
  /\ peer \in {ProcessState(IdleTick, [StartInit EXCEPT !.pc = "done"],
                          <<Len(fl), CountDue(fl, now), MinNext(fl), "", Null>>),
                ProcessState(IdleTick, StartInit, <<0, 0, Null, "", Null>>)}

\* InitEnsureCreate is left out for the reason given at NextC
NextM ==
  \/ TickStep
  \/ TickCreateMissing
  \/ \E k \in 1..MaxSaves, jitter \in JitterChoices : AttemptUnconfigured(k, jitter)
  \/ InitReaddir \/ InitLock \/ InitEnsure \/ InitRecover \/ InitUnlinkOrphan \/ InitRelease
  \/ InitScanAccess \/ InitScanCreate \/ InitScanLock \/ InitCopy \/ InitScanRelease
  \/ InitScan \/ InitUnlinkSnapshot
  \/ SwitchProcess

SpecM == InitM /\ [][NextM]_vars

\* ---------------------------------------------------------------------------
\* The functions of auth.ts and config.ts, applied to inputs drawn from small
\* sets.  A header object is the set of its <<name, value>> pairs.
\* ---------------------------------------------------------------------------

\* the values a consumer's token takes: unset, empty, two secrets
Tokens == {Undefined, Str(0, "", 0), Str(0, "s3cret", 0), Str(0, "t0ken", 0)}

\* the authKind strings handed to getAuthHeaders: the three of AuthKind and a
\* spelling it does not know
AuthKinds == {"x-auth", "bearer", "none", "X-Auth"}

\* if (token): undefined and the empty string are falsy
Truthy(v) == v.t = "string" /\ length(v) > 0

\* a getAuthHeaders that knows Bearer only
getAuthHeaders_AlwaysBearer(authKind, token, consumerKey) ==
  {<<"Authorization", "Bearer " \o token.text>>}

\* getAuthHeaders: X-Auth for 'x-auth', Authorization: Bearer for anything else
getAuthHeaders(authKind, token, consumerKey) ==
  IF authKind = "x-auth"
  THEN {<<"X-Auth", token.text>>}
  ELSE {<<"Authorization", "Bearer " \o token.text>>}

\* Object.assign(target, source): the pairs of source replace those of the same name
ObjectAssign(target, source) ==
  {h \in target : \A g \in source : g[1] # h[1]} \cup source

\* processEvent: headers = {'Content-Type': ...}; if (token) Object.assign(...)
DispatchHeaders(consumer) ==
  LET headers == {<<"Content-Type", "application/json">>} IN
  IF Truthy(consumer.token)
  THEN ObjectAssign(headers, getAuthHeaders(consumer.authKind, consumer.token, consumer.key))
  ELSE headers

\* the attempt of retryFailedEvents builds its headers the same way
RetryHeaders(consumer) ==
  LET headers == {<<"Content-Type", "application/json">>} IN
  IF Truthy(consumer.token)
  THEN ObjectAssign(headers, getAuthHeaders(consumer.authKind, consumer.token, consumer.key))
  ELSE headers

\* the consumers the header code may meet
ConsumerChoices ==
  [key : {CONSUMERS[k].key : k \in 1..Len(CONSUMERS)}, token : Tokens, authKind : AuthKinds]

\* a first attempt builds the headers of its POST
BuildDispatchHeaders(consumer) ==
  /\ call' = [fn |-> "processEvent", consumer |-> consumer, headers |-> DispatchHeaders(consumer)]
  /\ UNCHANGED qvars
  /\ UNCHANGED <<peer, config, cfgUrl, events, responses, posts, pendingFetches, saveCalls, reports, dr,
                 isShuttingDown, exited, retryTimer, retryChain>>

\* a retry builds the headers of its POST
BuildRetryHeaders(consumer) ==
  /\ call' = [fn |-> "retryFailedEvents", consumer |-> consumer, headers |-> RetryHeaders(consumer)]
  /\ UNCHANGED qvars
  /\ UNCHANGED <<peer, config, cfgUrl, events, responses, posts, pendingFetches, saveCalls, reports, dr,
                 isShuttingDown, exited, retryTimer, retryChain>>

\* ---- config.ts: RETRY_CONCURRENCY and RETRY_BATCH_SIZE.  An environment
\* ---- value is the sequence of its characters.

\* process.env[name] is not set
Unset == <<"undefined">>

\* the values the two variables are given
EnvChoices ==
  { Unset, <<>>, <<" ", " ">>, <<"1", "0">>, <<" ", "5", " ">>, <<"1", "0", "a", "b", "c">>,
    <<"1", "0", ".", "5">>, <<"0">>, <<"-", "1">>, <<"a", "b", "c">>, <<"5", "0">> }

DigitValue(c) ==
  CASE c = "0" -> 0 [] c = "1" -> 1 [] c = "2" -> 2 [] c = "3" -> 3 [] c = "4" -> 4
    [] c = "5" -> 5 [] c = "6" -> 6 [] c = "7" -> 7 [] c = "8" -> 8 [] c = "9" -> 9
    [] OTHER -> -1

IsDigit(c) == DigitValue(c) >= 0

RECURSIVE TrimStart(_)
TrimStart(v) == IF v # <<>> /\ Head(v) = " " THEN TrimStart(Tail(v)) ELSE v

RECURSIVE TrimEnd(_)
TrimEnd(v) == IF v # <<>> /\ v[Len(v)] = " " THEN TrimEnd(SubSeq(v, 1, Len(v) - 1)) ELSE v

\* getEnv: undefined when unset or empty after value.trim()
getEnv(value) ==
  IF value = Unset THEN Unset
  ELSE LET trimmed == TrimEnd(TrimStart(value)) IN
       IF Len(trimmed) > 0 THEN trimmed ELSE Unset

\* the number written by the longest prefix of digits, most significant first
RECURSIVE DigitPrefix(_, _, _)
DigitPrefix(v, acc, seen) ==
  IF v # <<>> /\ IsDigit(Head(v))
  THEN DigitPrefix(Tail(v), 10 * acc + DigitValue(Head(v)), TRUE)
  ELSE [nan |-> ~seen, n |-> acc]

\* parseInt(value, 10): leading white space, an optional sign, then digits up to
\* the first character that is not a digit; NaN when there is no digit
parseInt(value) ==
  LET v == TrimStart(value)
      negative == v # <<>> /\ Head(v) = "-"
      digits == IF v # <<>> /\ Head(v) \in {"-", "+"} THEN Tail(v) ELSE v
      p == DigitPrefix(digits, 0, FALSE) IN
  IF p.nan THEN [nan |-> TRUE, n |-> 0]
  ELSE [nan |-> FALSE, n |-> IF negative THEN 0 - p.n ELSE p.n]

\* validateInt: the default when the value is unset, a throw when it does not
\* parse to a number above zero
validateInt(name, value, defaultValue) ==
  IF value = Unset \/ value = <<>> THEN [throws |-> FALSE, value |-> defaultValue, message |-> ""]
  ELSE LET parsed == parseInt(value) IN
       IF parsed.nan \/ parsed.n <= 0
       THEN [throws |-> TRUE, value |-> 0,
             message |-> "Invalid " \o name \o " environment variable: must be a positive integer"]
       ELSE [throws |-> FALSE, value |-> parsed.n, message |-> ""]

\* config.ts is loaded: retryConcurrency = validateInt('RETRY_CONCURRENCY', getEnv(...), 5)
LoadRetryConcurrency(raw) ==
  /\ call' = [fn |-> "validateInt", name |-> "RETRY_CONCURRENCY", raw |-> raw, defaultValue |-> 5,
              result |-> validateInt("RETRY_CONCURRENCY", getEnv(raw), 5)]
  /\ UNCHANGED qvars
  /\ UNCHANGED <<peer, config, cfgUrl, events, responses, posts, pendingFetches, saveCalls, reports, dr,
                 isShuttingDown, exited, retryTimer, retryChain>>

\* retryBatchSize = validateInt('RETRY_BATCH_SIZE', getEnv(...), 50)
LoadRetryBatchSize(raw) ==
  /\ call' = [fn |-> "validateInt", name |-> "RETRY_BATCH_SIZE", raw |-> raw, defaultValue |-> 50,
              result |-> validateInt("RETRY_BATCH_SIZE", getEnv(raw), 50)]
  /\ UNCHANGED qvars
  /\ UNCHANGED <<peer, config, cfgUrl, events, responses, posts, pendingFetches, saveCalls, reports, dr,
                 isShuttingDown, exited, retryTimer, retryChain>>

\* ---- index.ts: the delay of the retry timer, in milliseconds
RETRY_INTERVAL_MS == 60000
MIN_RETRY_DELAY_MS == 5000

\* (Math.random() - 0.5) * 2000, whole milliseconds of [-1000, 1000)
TimerJitterChoices == {-1000, -1, 0, 999}

\* getNextDueAt(): null, or a time given by its distance from Date.now()
DueInChoices == {Null, -100000, 0, 4999, 5000, 5500, 30000, 59999, 60000, 60500, 1000000}

\* a scheduleRetry that passes the sum on as it is
scheduleRetryDelay_NoFloor(nextDue, nowMs, jitter) ==
  LET delay == IF nextDue # Null
               THEN Min(RETRY_INTERVAL_MS, Max(MIN_RETRY_DELAY_MS, nextDue - nowMs))
               ELSE RETRY_INTERVAL_MS
  IN delay + jitter

\* the delay scheduleRetry hands to setTimeout
scheduleRetryDelay(nextDue, nowMs, jitter) ==
  LET delay == IF nextDue # Null
               THEN Min(RETRY_INTERVAL_MS, Max(MIN_RETRY_DELAY_MS, nextDue - nowMs))
               ELSE RETRY_INTERVAL_MS
      sum == delay + jitter
  IN IF sum < MIN_RETRY_DELAY_MS THEN MIN_RETRY_DELAY_MS ELSE sum

\* scheduleRetry runs at nowMs with next_due_at dueIn milliseconds away
ScheduleRetry(dueIn, jitter) ==
  LET nowMs == 1000 * now + 7
      nextDue == IF dueIn = Null THEN Null ELSE nowMs + dueIn IN
  /\ call' = [fn |-> "scheduleRetry", dueIn |-> dueIn, jitter |-> jitter,
              delay |-> scheduleRetryDelay(nextDue, nowMs, jitter)]
  /\ UNCHANGED qvars
  /\ UNCHANGED <<peer, config, cfgUrl, events, responses, posts, pendingFetches, saveCalls, reports, dr,
                 isShuttingDown, exited, retryTimer, retryChain>>

NextP ==
  \/ \E dueIn \in DueInChoices, jitter \in TimerJitterChoices : ScheduleRetry(dueIn, jitter)
  \/ \E consumer \in ConsumerChoices : BuildDispatchHeaders(consumer)
  \/ \E consumer \in ConsumerChoices : BuildRetryHeaders(consumer)
  \/ \E raw \in EnvChoices : LoadRetryConcurrency(raw)
  \/ \E raw \in EnvChoices : LoadRetryBatchSize(raw)

SpecP == InitD /\ [][NextP]_vars

\* ============================================================== claims
AllProcIds == UNION {Ids(Lines(proc[t])) : t \in TickIds}

\* the tick whose rename made processing file t is still at work
TickInProgress(t) == tk.id = t /\ tk.pc # "idle"

\* C1: from the rename of a tick on, every entry the rename took and no retry
\* POST delivered is in failed_forwards.jsonl or in the tick's processing file,
\* also in the state the unlink of the processing file leaves behind.
C1_DuringTick ==
  \A t \in TickIds :
    (TickInProgress(t) /\ claimed[t] # {})
      => \A id \in claimed[t] \ answered2xx : id \in Ids(fl) \cup Ids(Lines(proc[t]))

C1_AtUnlink ==
  \A t \in TickIds :
    (TickInProgress(t) /\ proc[t] # Absent /\ proc'[t] = Absent)
      => \A id \in claimed[t] \ answered2xx : id \in Ids(fl')

C1_SurvivorsDurable == []C1_DuringTick /\ [][C1_AtUnlink]_vars

\* C2: every step that creates, truncates, appends to or renames
\* failed_forwards.jsonl is taken by the holder of the advisory lock.
C2_MutationsUnderLock == lastOp.kind # "none" => lockHolder = lastOp.actor

\* C3: every entry whose append in saveFailedEvent succeeded and that no retry
\* POST delivered is in failed_forwards.jsonl or in a processing file.
C3_AppendedNeverLost == \A id \in appended \ answered2xx : id \in Ids(fl) \cup AllProcIds

\* C4: while the process keeps running and no disk operation fails, every appended entry that is not yet
\* delivered stays within reach of the retry worker: it is in the queue file or
\* in the processing file of the tick in progress, so that a later 2xx can remove it.
C4_UndeliveredStaysRetryable ==
  (crashes = 0 /\ faults = 0) =>
    \A id \in appended \ answered2xx :
      \/ id \in Ids(fl)
      \/ \E t \in TickIds : TickInProgress(t) /\ id \in Ids(Lines(proc[t]))

\* ------------------------------------------------ claims on the dispatcher
PostIds == 1..Len(posts)
CallsOf(p) == {k \in 1..Len(saveCalls) : saveCalls[k].post = p}
Failed(p) == posts[p].status \notin {"pending", "200"}
EventTypeOf(p) == events[posts[p].event].type.text
CriticalFailure(p) ==
  Failed(p) /\ posts[p].key = "heimgeist" /\ EventTypeOf(p) \notin BEST_EFFORT_EVENTS
LinesOf(id) == {k \in 1..Len(fl) : fl[k].id = id}

RequestOf(e) ==
  IF \E r \in 1..Len(responses) : responses[r].event = e
  THEN CHOOSE r \in 1..Len(responses) : responses[r].event = e
  ELSE 0

\* the type the claims speak of: the input type, trimmed and lowercased
InputType(e) ==
  IF RequestOf(e) = 0 THEN events[e].type.text
  ELSE LowerCaseOf(responses[RequestOf(e)].input.type.text)

PostsTo(e, key) == {p \in PostIds : posts[p].event = e /\ posts[p].key = key}

\* C6: every event handed to processEvent is POSTed exactly once to each consumer
\* with a URL for which the trimmed, lowercased type is a broadcast type or whose
\* key is heimgeist, and to nobody else.
C6_ExactlyOnePostPerRoute ==
  /\ \A e \in 1..Len(events) : \A c \in 1..Len(CONSUMERS) :
       Cardinality(PostsTo(e, CONSUMERS[c].key)) =
         IF CONSUMERS[c].key \in cfgUrl
            /\ (InputType(e) \in BROADCAST_EVENTS \/ CONSUMERS[c].key = "heimgeist")
         THEN 1 ELSE 0
  /\ \A p \in PostIds : \E c \in 1..Len(CONSUMERS) : posts[p].key = CONSUMERS[c].key

\* a broadcast type written in mixed case reached three consumers, and some other
\* event reached heimgeist alone
C6_Witness ==
  /\ \E r \in 1..Len(responses) :
       /\ responses[r].event # 0
       /\ responses[r].input.type.text = "Knowledge.Observatory.Published.v1"
       /\ responses[r].issued = 3
  /\ \E e \in 1..Len(events) :
       /\ PostsTo(e, "heimgeist") # {}
       /\ PostsTo(e, "leitstand") = {}

Member(body, key) == {k \in 1..Len(body) : body[k].key = key}
ValueOf(body, key) == Parse(body[CHOOSE k \in Member(body, key) : TRUE].json)

\* C7: the body of every POST is an object with exactly the members type, source
\* and payload; type is the input type trimmed and lowercased, source the input
\* source trimmed, payload the input payload.
C7_BodyIsPassThrough ==
  \A p \in PostIds :
    LET body == posts[p].body
        e == posts[p].event
        r == RequestOf(e) IN
    /\ {body[k].key : k \in 1..Len(body)} = {"type", "source", "payload"}
    /\ Len(body) = 3
    /\ ValueOf(body, "type") = Str(0, InputType(e), 0)
    /\ ValueOf(body, "source") =
         (IF r = 0 THEN events[e].source ELSE Str(0, responses[r].input.source.text, 0))
    /\ ValueOf(body, "payload") =
         (IF r = 0 THEN events[e].payload ELSE responses[r].input.payload)

\* a POST was sent for a request whose type and source came with surrounding
\* whitespace and capitals
C7_Witness ==
  \E p \in PostIds :
    LET r == RequestOf(posts[p].event) IN
    /\ r # 0
    /\ responses[r].input.type.lead > 0 /\ responses[r].input.source.trail > 0
    /\ responses[r].input.type.text # InputType(posts[p].event)

\* a valid envelope: an object whose type and source are strings, non-empty after
\* trimming and at most 256 characters, and which has a payload
ValidEnvelope(body) ==
  /\ body.kind = "object"
  /\ body.type.t = "string" /\ body.type.text # "" /\ Len(body.type.text) <= 256
  /\ body.source.t = "string" /\ body.source.text # "" /\ Len(body.source.text) <= 256
  /\ body.payload # Undefined

\* C8: a valid envelope is answered 202 {status:'accepted'}, an invalid one is
\* not, and the answer is sent while every POST of the event is still in flight:
\* it does not depend on how or whether any of them settles.
C8_AcceptedWithoutWaiting ==
  \A r \in 1..Len(responses) :
    /\ ValidEnvelope(responses[r].input) =>
         /\ responses[r].answer = [status |-> 202, body |-> "accepted"]
         /\ responses[r].unsettled = responses[r].issued
         /\ responses[r].issued = Cardinality({p \in PostIds : posts[p].event = responses[r].event})
    /\ ~ValidEnvelope(responses[r].input) => responses[r].answer.status = 400

\* the 202 is there while one POST of the event has thrown, one got a non-2xx
\* answer and one has not been answered at all
C8_Witness ==
  \E r \in 1..Len(responses) :
    /\ responses[r].answer.status = 202
    /\ \E p, q, u \in PostIds :
         /\ posts[p].event = responses[r].event /\ posts[p].status = "pending"
         /\ posts[q].event = responses[r].event /\ posts[q].status = "500"
         /\ posts[u].event = responses[r].event /\ posts[u].status = "throw"

\* C9: when the drain has returned because every call in flight at its start
\* settled, each critical failure among those calls has its line in
\* failed_forwards.jsonl.
C9_DrainedFailuresAppended ==
  dr.result = "done" =>
    \A p \in dr.snapshot :
      CriticalFailure(p) => \E k \in CallsOf(p) : saveCalls[k].save \in Ids(fl)

\* C10: the drain returns at once on an empty in-flight set; it waits only while
\* a call of its snapshot is unsettled; it returns 'done' when they have all
\* settled and 'timeout' only while one has not; after a return without timeout
\* and without a dispatch in between, the in-flight set is empty.
C10_DrainReturns ==
  /\ dr.result = "empty" <=> (dr.pc = "returned" /\ dr.snapshot = {})
  /\ dr.pc = "waiting" =>
       dr.snapshot # {} /\ \E q \in dr.snapshot : posts[q].status = "pending"
  /\ dr.result = "done" => \A q \in dr.snapshot : posts[q].status # "pending"
  /\ dr.result = "timeout" => \E q \in dr.snapshot : posts[q].status = "pending"
  /\ (dr.result \in {"done", "empty"} /\ ~dr.dispatched) => Cardinality(pendingFetches) = 0

\* a drain that had to wait for two calls returned 'done' with nothing in flight
C10_Witness ==
  /\ dr.result = "done"
  /\ Cardinality(dr.snapshot) >= 2
  /\ ~dr.dispatched
  /\ Cardinality(pendingFetches) = 0

\* ------------------------------------------------ claims on crash recovery
\* the lines of the processing files 1..n of a directory, in readdir order
RECURSIVE OrphanLines(_, _)
OrphanLines(dir, n) ==
  IF n = 0 THEN <<>> ELSE OrphanLines(dir, n - 1) \o Lines(dir[n])

\* this call of initDelivery has returned and met no I/O error
CleanRun == ini.pc = "done" /\ faults = ini.before.faults /\ ~ini.lockFailed

\* C11: after initDelivery, failed_forwards.jsonl holds the lines of the initial
\* queue file followed by the lines of every processing file, each file's lines
\* unmodified and in their order, and no processing file is left.
C11_RecoveryLaw ==
  CleanRun =>
    /\ flExists
    /\ fl = ini.before.fl \o OrphanLines(ini.before.proc, MaxTicks)
    /\ \A t \in TickIds : proc[t] = Absent

\* two processing files of two lines each were appended to a queue that had lines
C11_Witness ==
  /\ CleanRun
  /\ ini.run = 1
  /\ Len(ini.before.fl) = 2
  /\ \A t \in TickIds : ini.before.proc[t] # Absent /\ Len(ini.before.proc[t]) = 2
  /\ ini.before.proc[1] # ini.before.proc[2]
  /\ Len(fl) = 2 + 2 * MaxTicks

\* C12: when no file operation fails, a second call of initDelivery right after
\* the first leaves failed_forwards.jsonl as the first call left it.
C12_InitIdempotent ==
  (ini.run = 2 /\ ini.pc = "done" /\ faults = 0) => fl = ini.first

\* the second call has returned on a queue the first call filled from orphans
C12_Witness ==
  /\ ini.run = 2 /\ ini.pc = "done" /\ faults = 0
  /\ Len(ini.first) >= 3
  /\ fl = ini.first

\* ------------------------------------------------- claims on the counters
\* the step in which a tick completes without error: the processing file is
\* unlinked and the counters are stored
TickCompletes == tk.pc = "unlink" /\ proc[tk.id] # Absent /\ proc'[tk.id] = Absent

\* C13: when a retry tick completes without error, failed is the number of lines
\* of failed_forwards.jsonl and next_due_at the least nextAttempt among them
\* (null exactly when the file is empty).
C13_CountersMatchQueue ==
  [][TickCompletes => (failedCount' = Len(fl') /\ nextDueAt' = MinNext(fl'))]_vars

\* ------------------------------------------------- claims on the retry schedule
\* the entries a tick has bumped: those of remainingEvents whose retryCount is
\* above the retryCount of their line in the processing file
Bumped(e) ==
  /\ tk.id \in TickIds
  /\ proc[tk.id] # Absent
  /\ \E k \in 1..Len(proc[tk.id]) :
       proc[tk.id][k].id = e.id /\ proc[tk.id][k].retryCount < e.retryCount

\* the step in which batchAppendEvents writes remainingEvents back
WriteBack == tk.pc = "batchWrite" /\ fl' # fl

\* C14: every entry a failed retry writes back has nextAttempt - lastAttempt of
\* at least min(2^retryCount * 60 s, 24 h) for the retryCount it stores.
C14_BackoffGap ==
  [][WriteBack =>
       \A k \in 1..Len(tk.remainingEvents) :
         LET e == tk.remainingEvents[k] IN
         Bumped(e) => e.nextAttempt - e.lastAttempt >= Backoff(e.retryCount)]_vars

\* C15: the entry a failed retry writes back has nextAttempt strictly later than
\* the wall-clock time of the write and strictly later than its own lastAttempt.
C15_NextAttemptInFuture ==
  [][WriteBack =>
       \A k \in 1..Len(tk.remainingEvents) :
         LET e == tk.remainingEvents[k] IN
         Bumped(e) => (e.nextAttempt > now /\ e.nextAttempt > e.lastAttempt)]_vars

\* ------------------------------------------------- claims on the scheduler
\* C16: at most one invocation of retryFailedEvents is in progress at any time,
\* and the timer of the next tick is armed only when the previous invocation
\* has settled.
C16_OneInvocation ==
  /\ retryChain <= 1
  /\ retryTimer = "armed" => retryChain = 0
  /\ tk.pc # "idle" => retryChain = 1

\* the second tick of the process is writing back while no timer is armed
C16_Witness ==
  /\ ticksDone = 2
  /\ tk.pc = "batchWrite"
  /\ retryChain = 1
  /\ retryTimer = "none"

\* ------------------------------------------------- claims on failing file operations
\* the step in which saveFailedEvent i gives its event up: the lock was not
\* acquired or appendFile failed
Drops(i) == sv[i].res # "dropped" /\ sv'[i].res = "dropped"

\* C17: when saveFailedEvent cannot acquire the lock or its append fails, nothing
\* is appended, the failed counter is not incremented, and the failure is
\* reported through last_error of the delivery metrics.
C17_DropIsReported ==
  [][\A i \in SaveIds :
       Drops(i) => /\ fl' = fl
                   /\ failedCount' = failedCount
                   /\ lastError' = sv[i].entry.error]_vars

\* the step in which a tick that has renamed the queue ends on an error: the
\* stream fails, or batchAppendEvents fails to lock or to append
FailsAfterRename ==
  /\ \/ tk.pc \in {"read", "batchLock"}
     \/ tk.pc = "batchRelease" /\ tk.failed
  /\ tk'.pc = "idle"
  /\ crashes' = crashes

\* C18: a retry tick that fails after the rename ends without unlinking the
\* processing file and holds no lock afterwards; it returns to the scheduler.
C18_FailedTickKeepsFile ==
  [][FailsAfterRename => /\ proc[tk.id] # Absent
                         /\ proc' = proc
                         /\ lockHolder' # TickActor
                         /\ tk' = EndTick]_vars

\* the first tick has ended on an error and its processing file is still there
C18_Witness ==
  /\ ticksDone = 1
  /\ tk.pc = "idle"
  /\ crashes = 0
  /\ proc[1] # Absent
  /\ Len(proc[1]) > 0
  /\ lockHolder = NoActor

\* ------------------------------------------------- claims on rejected requests
\* the step in which POST /events answers 400
Answers400 ==
  /\ Len(responses') = Len(responses) + 1
  /\ responses'[Len(responses')].answer.status = 400

\* C19: a POST /events answered with 400 causes no outbound POST, no in-flight
\* entry and no queue entry.
C19_RejectedHasNoEffect ==
  [][Answers400 => /\ posts' = posts
                   /\ pendingFetches' = pendingFetches
                   /\ events' = events
                   /\ saveCalls' = saveCalls
                   /\ sv' = sv
                   /\ fl' = fl]_vars

\* an envelope whose type is longer than MAX_STRING_LENGTH was answered 400
C19_Witness ==
  /\ Len(responses) = 1
  /\ responses[1].answer.status = 400
  /\ responses[1].input.kind = "object"
  /\ responses[1].input.type.t = "string"
  /\ length(NormalizedEvent(responses[1].input).type) > MAX_STRING_LENGTH
  /\ posts = <<>>
  /\ pendingFetches = {}
  /\ fl = <<>>

\* ------------------------------------------------- claims on the lock of the tick
\* C20: the retry worker has no POST in flight while it holds the advisory lock:
\* between acquiring the lock and releasing it after the rename and the creation
\* of the empty queue no attempt exists, and batchAppendEvents takes the lock
\* only when every attempt has settled.
C20_NoPostUnderLock ==
  lockHolder = TickActor =>
    /\ CountSt(tk.chunkPromises, "inflight") = 0
    /\ tk.pc \in {"stat", "rename", "create", "release", "finally"} => tk.chunkPromises = <<>>

\* a POST of the tick is in flight after the rename and the creation of the
\* empty queue, and nobody holds the lock
C20_Witness ==
  /\ CountSt(tk.chunkPromises, "inflight") > 0
  /\ proc[tk.id] # Absent
  /\ flExists /\ fl = <<>>
  /\ lockHolder = NoActor

\* ------------------------------------------------- claims on the in-flight set
\* the fanout POSTs that have not settled
Unsettled == {p \in 1..Len(posts) : posts[p].status = "pending"}

\* C21: the in-flight set holds exactly the fanout POSTs that have not settled,
\* and counts.pending of GET /status is its size.
C21_InFlightIsUnsettled ==
  /\ pendingFetches = Unsettled
  /\ getDeliveryMetrics(getPendingRequestCount).counts.pending = Cardinality(Unsettled)

\* one POST of a fanout has settled while two are still in flight
C21_Witness ==
  /\ Len(posts) = 3
  /\ Cardinality(Unsettled) = 2
  /\ getDeliveryMetrics(getPendingRequestCount).counts.pending = 2
  /\ ~exited

\* ------------------------------------------------- claims on the auth headers
\* the headers of a POST other than Content-Type
AuthHeadersOf(headers) == {h \in headers : h[1] # "Content-Type"}

\* C22: a POST, first attempt or retry, carries no auth header when the consumer
\* has no token, exactly X-Auth: <token> when authKind is x-auth, and exactly
\* Authorization: Bearer <token> for bearer and for any other kind.
C22_AuthHeaderByKind ==
  call.fn \in {"processEvent", "retryFailedEvents"} =>
    AuthHeadersOf(call.headers) =
      (IF call.consumer.token = Undefined \/ call.consumer.token.text = "" THEN {}
       ELSE IF call.consumer.authKind = "x-auth"
            THEN {<<"X-Auth", call.consumer.token.text>>}
            ELSE {<<"Authorization", "Bearer " \o call.consumer.token.text>>})

\* a retry to a consumer of an unknown kind carried the Bearer header
C22_Witness ==
  /\ call.fn = "retryFailedEvents"
  /\ call.consumer.authKind = "none"
  /\ call.consumer.token = Str(0, "s3cret", 0)
  /\ <<"Authorization", "Bearer s3cret">> \in call.headers

\* ------------------------------------------------- claims on the retry configuration
\* the trimmed value is a decimal integer above zero: digits only, not all zero
PositiveDecimal(v) ==
  /\ v # Unset
  /\ Len(v) > 0
  /\ \A k \in 1..Len(v) : IsDigit(v[k])
  /\ \E k \in 1..Len(v) : DigitValue(v[k]) > 0

\* C23: RETRY_CONCURRENCY and RETRY_BATCH_SIZE are accepted only when, trimmed,
\* they are a positive decimal integer; any other set value makes startup fail
\* with 'Invalid <NAME> environment variable', and an unset value gives the
\* default.
C23_StrictPositiveInteger ==
  call.fn = "validateInt" =>
    LET v == getEnv(call.raw) IN
    IF v = Unset THEN ~call.result.throws /\ call.result.value = call.defaultValue
    ELSE IF PositiveDecimal(v) THEN ~call.result.throws
    ELSE call.result.throws

\* ------------------------------------------------- claims on what a tick removes and keeps
\* C24: entries leave the queue only through a 2xx seen by a retry tick; a step
\* of saveFailedEvent never modifies or removes an entry that is already in
\* failed_forwards.jsonl: the file after the step begins with the file before it.
C24_SavesKeepEntries ==
  [][sv' # sv => (Len(fl') >= Len(fl) /\ SubSeq(fl', 1, Len(fl)) = fl)]_vars

\* the step in which attempt k of the running chunk ends without a 2xx
AttemptFails(k) ==
  /\ k \in 1..Len(tk.chunkPromises)
  /\ Len(tk'.chunkPromises) = Len(tk.chunkPromises)
  /\ tk.chunkPromises[k].st # "done"
  /\ tk'.chunkPromises[k].st = "done"
  /\ tk.chunkPromises[k].entry.id \notin answered2xx'

\* the failure message of an attempt on entry e
FailureMessage(e) ==
  IF e.consumerKey \in cfgUrl THEN "500"
  ELSE IF \E c \in 1..Len(CONSUMERS) : CONSUMERS[c].key = e.consumerKey
       THEN "Consumer URL missing"
       ELSE "Consumer configuration missing"

\* C25: every due entry that is not delivered with a 2xx is bumped: retryCount
\* one higher, error the failure message, nextAttempt = attempt time +
\* min(2^retryCount * 60 s, 24 h) + a jitter in [0, 10 s) with the new
\* retryCount; and it survives the tick: when the tick completes, the bumped
\* entry is in failed_forwards.jsonl.
C25_FailedAttemptIsBumped ==
  [][/\ \A k \in 1..MaxLines :
          AttemptFails(k) =>
            LET e == tk.chunkPromises[k].entry
                r == tk'.chunkPromises[k].result IN
            /\ r # NoEntry
            /\ r.consumerKey = e.consumerKey /\ r.event = e.event
            /\ r.retryCount = e.retryCount + 1
            /\ r.error = FailureMessage(e)
            /\ r.nextAttempt - tk'.chunkPromises[k].attemptNow - Backoff(r.retryCount) \in 0..9
     /\ TickCompletes =>
          \A k \in 1..Len(tk.remainingEvents) :
            Bumped(tk.remainingEvents[k]) =>
              \E j \in 1..Len(fl') : fl'[j] = tk.remainingEvents[k]]_vars

\* C26: an entry whose nextAttempt is later than the time the tick took as now
\* is not POSTed in that tick, and batchAppendEvents writes it back with every
\* field unchanged.
C26_FutureEntryUntouched ==
  [][/\ \A k \in 1..Len(tk.chunkPromises) : tk.chunkPromises[k].entry.nextAttempt <= tk.now
     /\ (WriteBack /\ proc[tk.id] # Absent) =>
          \A k \in 1..Len(proc[tk.id]) :
            proc[tk.id][k].nextAttempt > tk.now =>
              \E j \in (Len(fl) + 1)..Len(fl') : fl'[j] = proc[tk.id][k]]_vars

\* a tick has written back an entry that was not due, beside one it has bumped
C26_Witness ==
  /\ tk.pc = "batchRelease" /\ ~tk.failed
  /\ proc[tk.id] # Absent
  /\ \E k \in 1..Len(proc[tk.id]) :
       /\ proc[tk.id][k].nextAttempt > tk.now
       /\ \E j \in 1..Len(fl) : fl[j] = proc[tk.id][k]
  /\ \E j \in 1..Len(fl) : Bumped(fl[j])

\* ------------------------------------------------- claims on startup beside a running tick
\* C27: initDelivery never reattaches a processing file that a retry tick is
\* still processing: no step of initDelivery appends the lines of the running
\* tick's file to failed_forwards.jsonl or unlinks it.
C27_InitLeavesRunningTick ==
  [][(ini' # ini /\ tk.pc # "idle" /\ tk.id \in TickIds /\ proc[tk.id] # Absent) =>
       /\ proc'[tk.id] = proc[tk.id]
       /\ ~(ini.pc = "recover" /\ ini'.pc = "unlinkOrphan" /\ ini.files[ini.k] = tk.id)]_vars

\* how often entry x occurs in a file
CountIn(lines, x) == Cardinality({k \in 1..Len(lines) : lines[k] = x})

\* the saveFailedEvent invocations that appended while the tick ran: their
\* entry was in no file a rename took
DuringTick == {i \in appended : \A t \in TickIds : i \notin claimed[t]}

\* C28: when a tick completes without error, failed_forwards.jsonl holds exactly
\* the entries saveFailedEvent appended during the tick and one written-back
\* entry for each entry of the renamed file that was not delivered: nothing is
\* duplicated, invented or dropped.
C28_TickConservesEntries ==
  [][TickCompletes =>
       \A x \in {fl'[k] : k \in 1..Len(fl')}
                \cup {tk.remainingEvents[k] : k \in 1..Len(tk.remainingEvents)}
                \cup {sv[i].entry : i \in DuringTick} :
         CountIn(fl', x) = CountIn(tk.remainingEvents, x)
                           + Cardinality({i \in DuringTick : sv[i].entry = x})]_vars

C31_BoundedAttempts ==
  /\ CountSt(tk.chunkPromises, "inflight") <= config.retryConcurrency
  /\ Len(tk.chunkPromises) <= config.retryBatchSize
  /\ Len(tk.chunkPromises) = config.retryBatchSize => tk.pc \in {"awaitChunk", "awaitLast"}

\* the limit holds an attempt back while the worker waits for a full chunk and
\* lines remain to be read
C31_Witness ==
  /\ tk.pc = "awaitChunk"
  /\ tk.pos <= Len(tk.lines)
  /\ CountSt(tk.chunkPromises, "inflight") = config.retryConcurrency
  /\ CountSt(tk.chunkPromises, "queued") > 0

\* C32: no saveFailedEvent of the process runs and no retry tick starts before
\* initDelivery (recovery of the orphans and metrics scan) has returned.
C32_RecoveryBeforeTraffic ==
  ((\E i \in SaveIds : sv[i].pc # "idle") \/ ticksDone > 0) => ini.pc = "done"

\* C33: a call of saveFailedEvent, retryFailedEvents, batchAppendEvents or
\* initDelivery that has returned does not hold the advisory lock, whatever
\* path it took.
C33_ReturnedHoldsNoLock ==
  /\ \A i \in SaveIds : sv[i].pc \in {"idle", "done"} => lockHolder # SaveActor(i)
  /\ tk.pc \in {"idle", "unlink"} => lockHolder # TickActor
  /\ ini.pc = "done" => lockHolder # InitActor

\* the only save of the run had the lock when its appendFile failed, and has
\* returned
C33_Witness ==
  /\ faults = 1 /\ crashes = 0 /\ ticksDone = 0
  /\ \E i \in SaveIds :
       /\ sv[i].pc = "done" /\ sv[i].res = "dropped"
       /\ \A j \in SaveIds \ {i} : sv[j].pc = "idle"
  /\ lockHolder = NoActor

\* C34: a tick that finds failed_forwards.jsonl missing (at fs.access or at
\* fs.stat) or of size 0 sets failedCount and retryableNowCount to 0 and
\* nextDueAt to null, creates no processing file, starts no attempt, and has
\* released the lock when it returns.
C34_EmptyQueueTick ==
  [][peer' = peer =>
       /\ (tk.pc = "stat" /\ (~flExists \/ Len(fl) = 0) /\ tk'.pc # "stat") =>
            /\ failedCount' = 0 /\ retryableNowCount' = 0 /\ nextDueAt' = Null
            /\ tk'.pc = "finally" /\ proc' = proc
       /\ (tk.pc = "create0" /\ tk'.pc = "idle") =>
            /\ failedCount' = 0 /\ retryableNowCount' = 0 /\ nextDueAt' = Null
            /\ proc' = proc /\ lockHolder' # TickActor
       /\ (tk.pc = "finally" /\ tk'.pc = "idle") => lockHolder' # TickActor]_vars

\* C35: the shutdown handler cancels the retry timer and leaves the running
\* tick and its POSTs as they are; from then on the timer stays cancelled and
\* no tick starts.
C35_NoTickAfterShutdown ==
  [][/\ (~isShuttingDown /\ isShuttingDown') =>
          (retryTimer' = "none" /\ tk' = tk /\ pendingFetches' = pendingFetches)
     /\ isShuttingDown =>
          (isShuttingDown' /\ retryTimer' = "none" /\ ticksDone' = ticksDone)]_vars

\* the process is shutting down while a POST of its tick is in flight
C35_Witness ==
  /\ isShuttingDown
  /\ CountSt(tk.chunkPromises, "inflight") > 0
  /\ retryChain > 0

\* C36: when the append of one orphan fails in initDelivery, the orphan stays
\* on disk, the loop goes on with the next orphan under the same lock, and the
\* call ends without the lock; an orphan is unlinked only once its lines are
\* at the end of failed_forwards.jsonl.
C36_FailedOrphanIsKept ==
  /\ [][(ini.pc = "recover" /\ faults' # faults) =>
          (proc' = proc /\ ini' = AfterOrphan(ini.k) /\ lockHolder' = InitActor)]_vars
  /\ [](ini.pc = "unlinkOrphan" =>
          LET o == proc[ini.files[ini.k]] IN
          o # Absent => (Len(fl) >= Len(o) /\ SubSeq(fl, Len(fl) - Len(o) + 1, Len(fl)) = o))
  /\ [](ini.pc = "done" => lockHolder # InitActor)

\* initDelivery has returned: of two orphans it found, the one whose append
\* failed is still there and the other one has been recovered and unlinked
C36_Witness ==
  /\ ini.pc = "done" /\ ini.run = 1 /\ faults = 1
  /\ lockHolder = NoActor
  /\ \E f, g \in TickIds :
       /\ ini.before.proc[f] # Absent /\ proc[f] = ini.before.proc[f]
       /\ ini.before.proc[g] # Absent /\ proc[g] = Absent

\* ids of the entries whose POST a tick has in flight
InFlightIds(t) ==
  {t.chunkPromises[k].entry.id :
     k \in {j \in 1..Len(t.chunkPromises) : t.chunkPromises[j].st = "inflight"}}

\* ids of the entries in a processing file
ProcIds(f) == IF proc[f] = Absent THEN {} ELSE Ids(proc[f])

\* C37: with two processes on one data directory no entry is in two
\* processing files at a time, and no entry has a POST in flight from both
\* retry workers.
C37_OneClaimPerEntry ==
  /\ \A f, g \in TickIds : f # g => ProcIds(f) \cap ProcIds(g) = {}
  /\ InFlightIds(tk) \cap InFlightIds(peer.tk) = {}

\* the entries of a file
QueuePolicyHolds(lines) ==
  \A k \in 1..Len(lines) :
    /\ lines[k].consumerKey = "heimgeist"
    /\ ~Has(BEST_EFFORT_EVENTS, lines[k].event.type)
    /\ lines[k].retryCount >= 0

C39_SnapshotIsTransient ==
  /\ [][snapFile' # snapFile /\ snapFile' # Absent =>
          (lockHolder = InitActor /\ ini.pc = "copy" /\ snapFile' = fl)]_vars
  /\ [](ini.pc \in {"scan", "unlinkSnap", "done"} => lockHolder # InitActor)
  /\ [](ini.pc = "done" => snapFile = Absent)

\* the scan of a snapshot of two lines failed after the first line, and
\* initDelivery has returned
C39_Witness ==
  /\ ini.pc = "done" /\ ini.run = 1 /\ ini.scanSuccess
  /\ Len(fl) = 2 /\ failedCount = 1
  /\ snapFile = Absent

\* the time until next_due_at clamped to [5 s, 60 s], 60 s without next_due_at
ClampedWait(dueIn) ==
  IF dueIn = Null THEN 60000
  ELSE IF dueIn < 5000 THEN 5000
  ELSE IF dueIn > 60000 THEN 60000
  ELSE dueIn

\* C40: the delay scheduleRetry passes to the timer is the clamped wait plus
\* the jitter, raised to 5000 ms when that sum is lower, and so lies between
\* 5000 ms and 61000 ms.
C40_DelayWithinBounds ==
  call.fn = "scheduleRetry" =>
    /\ call.delay >= 5000 /\ call.delay <= 61000
    /\ call.delay = Max(5000, ClampedWait(call.dueIn) + call.jitter)

\* a due time less than 5 s away and a negative jitter: the floor applies
C40_Witness ==
  /\ call.fn = "scheduleRetry"
  /\ call.dueIn # Null
  /\ ClampedWait(call.dueIn) + call.jitter < 5000
  /\ call.delay = 5000

====
